---------------------------- MODULE Spec2Model ----------------------------
(***************************************************************************)
(* A model of vk_captcha_solver: the proof-of-work search, the slider      *)
(* puzzle solver (tile layout, tile permutation, seam score, swap replay)  *)
(* and the CaptchaSolver orchestration of the remote protocol.             *)
(*                                                                         *)
(* Characters are integers: the decimal digits '0'..'9' are 0..9 and the   *)
(* letters 'a'.. are 10, 11, ...; a string is a sequence of characters.    *)
(***************************************************************************)
EXTENDS Integers, Sequences, FiniteSets, TLC

VARIABLES
    pw,         \* one run of CaptchaSolver._generate_pow
    lay,        \* one call of SliderCaptchaSolver.compute_tile_layout
    sl,         \* one call of SliderCaptchaSolver.solve
    solver_api, \* CaptchaSolver._api: an API object, or NoApi for None
    apis,       \* the transport objects, by identity
    att,        \* the attempts: one coroutine each, with its locals
    cur,        \* the attempt whose coroutine the event loop is running
    ca,         \* one call of API.call, from the HTTP exchange on
    tr,         \* one call of CheckboxCaptchaSolver.generate_mouse_trace
    cb,         \* one call of CheckboxCaptchaSolver.solve
    rn,         \* one call of SliderCaptchaSolver.apply_tile_permutation
    sc          \* one call of SliderCaptchaSolver.calculate_seam_score

pow_vars == <<pw>>
slider_vars == <<lay, sl>>
orch_vars == <<solver_api, apis, att, cur>>
unit_vars == <<ca, tr, cb, rn, sc>>
vars == <<pow_vars, slider_vars, orch_vars, unit_vars>>

None == "None"

Abs(x) == IF x < 0 THEN -x ELSE x
Min(a, b) == IF a <= b THEN a ELSE b

RECURSIVE SumSeq(_)
SumSeq(s) == IF s = <<>> THEN 0 ELSE Head(s) + SumSeq(Tail(s))

(***************************************************************************)
(* Bounds of the model.                                                    *)
(***************************************************************************)
MaxSeedLen == 2     \* longest proof-of-work seed
MaxNonce == 24      \* the search is followed up to this nonce
DigestLen == 3      \* length of the model digest (hex characters)
MaxExtent == 10     \* largest image width and height given to the layout
MaxGrid == 4        \* largest grid size given to the layout
NAttempts == 2      \* attempts (handler calls) on the one CaptchaSolver
MaxRawSteps == 4    \* every swap sequence (as received) up to this length

(***************************************************************************)
(* Proof-of-work: CaptchaSolver._generate_pow                              *)
(***************************************************************************)
SeedChars == {1, 10, 11}
Seeds == UNION {[1..n -> SeedChars] : n \in 1..MaxSeedLen}
Difficulties == 0..(DigestLen + 1)

\* str(nonce): the decimal digits of a positive integer, most significant first
RECURSIVE Decimal(_)
Decimal(n) == IF n < 10 THEN <<n>> ELSE Decimal(n \div 10) \o <<n % 10>>

\* hashlib.sha256(data).hexdigest(): a fixed function from the byte string to
\* a fixed-length sequence of hex characters.  The library digest is stood
\* for by a small mixing function with DigestLen output characters.
RECURSIVE Mix(_, _)
Mix(h, data) ==
    IF data = <<>> THEN h
    ELSE Mix((h * 37 + Head(data) * 11 + 5) % (4 ^ DigestLen), Tail(data))

sha256_hexdigest(data) ==
    LET h == Mix(7, data)
    IN  [i \in 1..DigestLen |-> 5 * ((h \div (4 ^ (DigestLen - i))) % 4)]

\* "0" * difficulty
target_prefix_short(difficulty) ==
    [i \in 1..(IF difficulty > 0 THEN difficulty - 1 ELSE 0) |-> 0]

target_prefix(difficulty) == [i \in 1..difficulty |-> 0]

\* str.startswith
startswith(s, prefix) ==
    /\ Len(prefix) <= Len(s)
    /\ SubSeq(s, 1, Len(prefix)) = prefix

\* the state of the search before the first iteration (lines 246-247)
generate_pow_begin(input_str, difficulty) ==
    [input_str |-> input_str, difficulty |-> difficulty, nonce |-> 0,
     pc |-> "loop", ret |-> None]

\* the loop with a ceiling on the nonce: it gives up without a hash
generate_pow_iter_capped(p) ==
    LET nonce == p.nonce + 1
        data == p.input_str \o Decimal(nonce)
        hash_val == sha256_hexdigest(data)
    IN  IF startswith(hash_val, target_prefix(p.difficulty))
        THEN [p EXCEPT !.nonce = nonce, !.pc = "returned", !.ret = hash_val]
        ELSE IF nonce >= 8 THEN [p EXCEPT !.nonce = nonce, !.pc = "exhausted"]
        ELSE [p EXCEPT !.nonce = nonce]

\* one iteration of the while loop (lines 249-254)
generate_pow_iter(p) ==
    LET nonce == p.nonce + 1
        data == p.input_str \o Decimal(nonce)
        hash_val == sha256_hexdigest(data)
    IN  IF startswith(hash_val, target_prefix(p.difficulty))
        THEN [p EXCEPT !.nonce = nonce, !.pc = "returned", !.ret = hash_val]
        ELSE [p EXCEPT !.nonce = nonce]

PowIdle == [input_str |-> <<>>, difficulty |-> 0, nonce |-> 0,
            pc |-> "idle", ret |-> None]

PowCall ==
    /\ pw.pc = "idle"
    /\ \E s \in Seeds, d \in Difficulties : pw' = generate_pow_begin(s, d)
    /\ UNCHANGED <<slider_vars, orch_vars, unit_vars>>

PowIter ==
    /\ pw.pc = "loop"
    /\ pw.nonce < MaxNonce
    /\ pw' = generate_pow_iter(pw)
    /\ UNCHANGED <<slider_vars, orch_vars, unit_vars>>

LayIdle == [pc |-> "idle"]
SlIdle == [pc |-> "idle"]
CallIdle == [pc |-> "idle"]
TraceIdle == [pc |-> "idle"]
CbIdle == [pc |-> "idle"]
RenderIdle == [pc |-> "idle"]
ScoreIdle == [pc |-> "idle"]
UnitsIdle ==
    /\ ca = CallIdle /\ tr = TraceIdle /\ cb = CbIdle
    /\ rn = RenderIdle /\ sc = ScoreIdle

(***************************************************************************)
(* Tile layout: SliderCaptchaSolver.compute_tile_layout                    *)
(* Python lists are 0-based, sequences 1-based: list[i] is seq[i + 1].     *)
(***************************************************************************)
\* round(n / d) for n >= 0, d > 0: Python rounds an exact half to the even
\* neighbour
PyRound(n, d) ==
    LET q == n \div d
        r == n % d
    IN  IF 2 * r < d THEN q
        ELSE IF 2 * r > d THEN q + 1
        ELSE IF q % 2 = 0 THEN q ELSE q + 1

\* the rounding applied to the fraction i / tile_count instead of the product
vertical_lines_round_fraction(image_width, tile_count) ==
    [i \in 1..(tile_count + 1) |-> PyRound(i - 1, tile_count) * image_width]

vertical_lines(image_width, tile_count) ==
    [i \in 1..(tile_count + 1) |-> PyRound((i - 1) * image_width, tile_count)]

\* a fixed-height tiling that drops the rounding remainder
horizontal_lines_fixed(image_height, tile_count) ==
    [i \in 1..(tile_count + 1) |-> (i - 1) * (image_height \div tile_count)]

\* equal tiles of the truncated quotient, the remainder given to the last one
horizontal_lines_remainder_last(image_height, tile_count) ==
    [i \in 1..(tile_count + 1) |->
        IF i = tile_count + 1 THEN image_height
        ELSE (i - 1) * (image_height \div tile_count)]

horizontal_lines(image_height, tile_count) ==
    [i \in 1..(tile_count + 1) |-> PyRound((i - 1) * image_height, tile_count)]

compute_tile_layout(image_width, image_height, tile_count) ==
    LET v == vertical_lines(image_width, tile_count)
        h == horizontal_lines(image_height, tile_count)
        tile(row, col) ==
            [x |-> v[col + 1], y |-> h[row + 1],
             width |-> v[col + 2] - v[col + 1],
             height |-> h[row + 2] - h[row + 1]]
    IN  [tiles |-> [k \in 1..(tile_count * tile_count) |->
                       tile((k - 1) \div tile_count, (k - 1) % tile_count)],
         grid |-> [vertical |-> v, horizontal |-> h]]

LayoutInputs ==
    {[pc |-> "call", image_width |-> w, image_height |-> h, tile_count |-> g,
      ret |-> None] : w \in 1..MaxExtent, h \in 1..MaxExtent, g \in 1..MaxGrid}

LayoutReturn ==
    /\ lay.pc = "call"
    /\ lay' = [lay EXCEPT !.pc = "returned",
                          !.ret = compute_tile_layout(lay.image_width,
                                       lay.image_height, lay.tile_count)]
    /\ UNCHANGED <<pow_vars, sl, orch_vars, unit_vars>>

(***************************************************************************)
(* Images.  A decoded RGB image is [width, height, px] with px[y+1][x+1]   *)
(* the pixel <<r, g, b>> at column x, row y.  content['image'] is a        *)
(* base64 string, here a name; base64.b64decode + Image.open(...).convert  *)
(* is the lookup DecodeImage, which fails on a name that holds no image.   *)
(***************************************************************************)
DEFAULT_TILE_COUNT == 5
DEFAULT_MAX_STEPS == 50
Inf == -1       \* float('inf'): above every score (scores are >= 0)

SwapTiles(perm, a, b) ==
    [perm EXCEPT ![a + 1] = perm[b + 1], ![b + 1] = perm[a + 1]]

Identity(n) == [i \in 1..n |-> i - 1]

\* a smooth 5 x 5 picture, one pixel per tile
BasePixel(x, y) == <<4 * x, 4 * y, 2 * (x + y)>>

\* the same picture with the tiles at positions 0 and 7 exchanged
ScrambledPixel(x, y) ==
    LET t == SwapTiles(Identity(25), 0, 7)[y * 5 + x + 1]
    IN  BasePixel(t % 5, t \div 5)

ImageNames == {"flat", "scrambled", "wide"}

DecodeImage(name) ==
    CASE name = "flat" ->
            [width |-> 5, height |-> 5,
             px |-> [y \in 1..5 |-> [x \in 1..5 |-> <<9, 9, 9>>]]]
      [] name = "scrambled" ->
            [width |-> 5, height |-> 5,
             px |-> [y \in 1..5 |-> [x \in 1..5 |-> ScrambledPixel(x - 1, y - 1)]]]
      [] name = "wide" ->
            [width |-> 6, height |-> 7,
             px |-> [y \in 1..7 |-> [x \in 1..6 |->
                        <<(x * x + y) % 7, (x + 2 * y) % 5, (x * y) % 3>>]]]
      [] OTHER -> None

(***************************************************************************)
(* SliderCaptchaSolver.apply_tile_permutation                              *)
(***************************************************************************)
\* Image.crop(box) of a box inside the image
Crop(img, x0, y0, x1, y1) ==
    [width |-> x1 - x0, height |-> y1 - y0,
     px |-> [y \in 1..(y1 - y0) |-> [x \in 1..(x1 - x0) |->
                img.px[y0 + y][x0 + x]]]]

\* Image.resize(size, resample=Image.NEAREST): output pixel i samples the
\* input pixel under its centre, floor((i + 0.5) * in / out)
ResizeNearest(img, w, h) ==
    [width |-> w, height |-> h,
     px |-> [y \in 1..h |-> [x \in 1..w |->
                img.px[((2 * (y - 1) + 1) * img.height) \div (2 * h) + 1]
                      [((2 * (x - 1) + 1) * img.width) \div (2 * w) + 1]]]]

\* Image.paste(tile, (dest_x, dest_y))
Paste(canvas, tile, dest_x, dest_y) ==
    [canvas EXCEPT !.px =
        [y \in 1..canvas.height |-> [x \in 1..canvas.width |->
            IF /\ dest_x < x /\ x <= dest_x + tile.width
               /\ dest_y < y /\ y <= dest_y + tile.height
            THEN tile.px[y - dest_y][x - dest_x]
            ELSE canvas.px[y][x]]]]

\* the loop body with the tile of the position itself cropped, whatever the
\* permutation holds
PlaceTile_ignores_permutation(canvas, source_image, tile_layout, permutation, tile_index, tile_count) ==
    LET row == tile_index \div tile_count
        col == tile_index % tile_count
        dest_x == tile_layout.grid.vertical[col + 1]
        dest_y == tile_layout.grid.horizontal[row + 1]
        src_tile == tile_layout.tiles[tile_index + 1]
    IN  Paste(canvas,
              Crop(source_image, src_tile.x, src_tile.y,
                   src_tile.x + src_tile.width, src_tile.y + src_tile.height),
              dest_x, dest_y)

\* the body of the row/col loops for one tile_index (lines 127-148)
PlaceTile(canvas, source_image, tile_layout, permutation, tile_index, tile_count) ==
    LET row == tile_index \div tile_count
        col == tile_index % tile_count
        dest_x == tile_layout.grid.vertical[col + 1]
        dest_y == tile_layout.grid.horizontal[row + 1]
        dest_w == tile_layout.grid.vertical[col + 2] - dest_x
        dest_h == tile_layout.grid.horizontal[row + 2] - dest_y
        src_tile == tile_layout.tiles[permutation[tile_index + 1] + 1]
        tile_crop == Crop(source_image, src_tile.x, src_tile.y,
                          src_tile.x + src_tile.width,
                          src_tile.y + src_tile.height)
        resized == IF <<tile_crop.width, tile_crop.height>> # <<dest_w, dest_h>>
                   THEN ResizeNearest(tile_crop, dest_w, dest_h)
                   ELSE tile_crop
    IN  Paste(canvas, resized, dest_x, dest_y)

RECURSIVE PlaceTiles(_, _, _, _, _, _)
PlaceTiles(canvas, source_image, tile_layout, permutation, tile_index, tile_count) ==
    IF tile_index >= tile_count * tile_count THEN canvas
    ELSE PlaceTiles(PlaceTile(canvas, source_image, tile_layout, permutation,
                              tile_index, tile_count),
                    source_image, tile_layout, permutation, tile_index + 1,
                    tile_count)

\* math.sqrt of a perfect square
ISqrt(n) == CHOOSE r \in 0..n : r * r <= n /\ (r + 1) * (r + 1) > n

apply_tile_permutation(source_image, tile_layout, permutation, output_width, output_height) ==
    LET new_image == [width |-> output_width, height |-> output_height,
                      px |-> [y \in 1..output_height |->
                                [x \in 1..output_width |-> <<0, 0, 0>>]]]
        tile_count == ISqrt(Len(permutation))
    IN  PlaceTiles(new_image, source_image, tile_layout, permutation, 0, tile_count)

\* Image.resize rejects a target size with a zero side (ValueError), and an
\* empty crop has no pixel to sample for a target that is not empty: the
\* resize of line 143 fails for a position whose size differs from the size
\* of its source tile while one of the two is empty.
resize_fails(tile_layout, permutation, tile_index, tile_count) ==
    LET row == tile_index \div tile_count
        col == tile_index % tile_count
        dest_w == tile_layout.grid.vertical[col + 2]
                    - tile_layout.grid.vertical[col + 1]
        dest_h == tile_layout.grid.horizontal[row + 2]
                    - tile_layout.grid.horizontal[row + 1]
        src_tile == tile_layout.tiles[permutation[tile_index + 1] + 1]
    IN  /\ <<src_tile.width, src_tile.height>> # <<dest_w, dest_h>>
        /\ \/ dest_w = 0 \/ dest_h = 0
           \/ src_tile.width = 0 \/ src_tile.height = 0

apply_tile_permutation_raises(tile_layout, permutation) ==
    LET tile_count == ISqrt(Len(permutation))
    IN  \E tile_index \in 0..(tile_count * tile_count - 1) :
            resize_fails(tile_layout, permutation, tile_index, tile_count)

\* One call of apply_tile_permutation, with the arguments
\* find_optimal_step_count passes (lines 163-193): the layout of the source
\* image, the identity with some exchanges applied, the source's own size.
NarrowImage ==
    [width |-> 3, height |-> 5,
     px |-> [y \in 1..5 |-> [x \in 1..3 |-> <<x, y, (x + y) % 4>>]]]

RenderSources == {DecodeImage(n) : n \in ImageNames} \cup {NarrowImage}
RenderGrids == {2, DEFAULT_TILE_COUNT}
SwapIndexes(g) == {0, 1, g, g * g - 1}

RenderPermutations(g) ==
    {SwapTiles(SwapTiles(Identity(g * g), a, b), c, d) :
        a \in SwapIndexes(g), b \in SwapIndexes(g),
        c \in SwapIndexes(g), d \in SwapIndexes(g)}

RenderInputs ==
    UNION {{[pc |-> "call", source_image |-> i, tile_count |-> g,
             permutation |-> p, ret |-> None] :
               i \in RenderSources, p \in RenderPermutations(g)} :
           g \in RenderGrids}

RenderReturn ==
    /\ rn.pc = "call"
    /\ LET width == rn.source_image.width
           height == rn.source_image.height
           tile_layout == compute_tile_layout(width, height, rn.tile_count)
       IN  rn' = IF apply_tile_permutation_raises(tile_layout, rn.permutation)
                 THEN [rn EXCEPT !.pc = "raised"]
                 ELSE [rn EXCEPT !.pc = "returned",
                          !.ret = apply_tile_permutation(rn.source_image,
                                      tile_layout, rn.permutation, width, height)]
    /\ UNCHANGED <<pow_vars, slider_vars, orch_vars, ca, tr, cb, sc>>

(***************************************************************************)
(* SliderCaptchaSolver.calculate_seam_score                                *)
(***************************************************************************)
PixelDiff(p, q) == Abs(p[1] - q[1]) + Abs(p[2] - q[2]) + Abs(p[3] - q[3])

\* a numpy integer index into an axis of n entries: a negative index counts
\* from the end (as a position 1..n here)
NumpyIndex(i, n) == (IF i < 0 THEN i + n ELSE i) + 1

\* np.sum(np.abs(data[y_start:y_end, seam_x - 1, :] - data[y_start:y_end, seam_x, :]))
VerticalSeam(image, y_start, y_end, seam_x) ==
    SumSeq([i \in 1..(y_end - y_start) |->
              PixelDiff(image.px[y_start + i][NumpyIndex(seam_x - 1, image.width)],
                        image.px[y_start + i][NumpyIndex(seam_x, image.width)])])

\* the seam summed without the last column of the tile
HorizontalSeam_skips_last_column(image, x_start, x_end, seam_y) ==
    SumSeq([i \in 1..(x_end - x_start - 1) |->
              PixelDiff(image.px[NumpyIndex(seam_y - 1, image.height)][x_start + i],
                        image.px[NumpyIndex(seam_y, image.height)][x_start + i])])

\* np.sum(np.abs(data[seam_y - 1, x_start:x_end, :] - data[seam_y, x_start:x_end, :]))
HorizontalSeam(image, x_start, x_end, seam_y) ==
    SumSeq([i \in 1..(x_end - x_start) |->
              PixelDiff(image.px[NumpyIndex(seam_y - 1, image.height)][x_start + i],
                        image.px[NumpyIndex(seam_y, image.height)][x_start + i])])

\* an integer index equal to the size of its axis is an IndexError (lines 88,
\* 103): an interior cut that lies on the right or bottom edge of the image
calculate_seam_score_raises(image, tile_count) ==
    LET grid == compute_tile_layout(image.width, image.height, tile_count).grid
    IN  \E k \in 1..(tile_count - 1) :
            \/ grid.vertical[k + 1] >= image.width
            \/ grid.horizontal[k + 1] >= image.height

calculate_seam_score(image, tile_count) ==
    LET grid == compute_tile_layout(image.width, image.height, tile_count).grid
        vertical == SumSeq([k \in 1..(tile_count * (tile_count - 1)) |->
            LET row == (k - 1) \div (tile_count - 1)
                col == ((k - 1) % (tile_count - 1)) + 1
            IN  VerticalSeam(image, grid.horizontal[row + 1],
                             grid.horizontal[row + 2], grid.vertical[col + 1])])
        horizontal == SumSeq([k \in 1..(tile_count * (tile_count - 1)) |->
            LET col == (k - 1) \div (tile_count - 1)
                row == ((k - 1) % (tile_count - 1)) + 1
            IN  HorizontalSeam(image, grid.vertical[col + 1],
                               grid.vertical[col + 2], grid.horizontal[row + 1])])
    IN  vertical + horizontal

\* One call of calculate_seam_score on an RGB image.
MaxScoreExtent == 6

Pattern(width, height, k) ==
    [width |-> width, height |-> height,
     px |-> [y \in 1..height |-> [x \in 1..width |->
                <<(k * x * x + y) % 7, (x + k * y) % 5, (k * x * y) % 3>>]]]

Uniform(width, height) ==
    [width |-> width, height |-> height,
     px |-> [y \in 1..height |-> [x \in 1..width |-> <<9, 9, 9>>]]]

ScoreImages ==
    {Pattern(w, h, k) : w \in 1..MaxScoreExtent, h \in 1..MaxScoreExtent,
                        k \in {1, 2}}
    \cup {Uniform(w, h) : w \in 1..MaxScoreExtent, h \in 1..MaxScoreExtent}

ScoreGrids == {1, 2, 3, DEFAULT_TILE_COUNT}

ScoreInputs ==
    {[pc |-> "call", image |-> i, tile_count |-> g, ret |-> None] :
        i \in ScoreImages, g \in ScoreGrids}

ScoreReturn ==
    /\ sc.pc = "call"
    /\ sc' = IF calculate_seam_score_raises(sc.image, sc.tile_count)
             THEN [sc EXCEPT !.pc = "raised"]
             ELSE [sc EXCEPT !.pc = "returned",
                      !.ret = calculate_seam_score(sc.image, sc.tile_count)]
    /\ UNCHANGED <<pow_vars, slider_vars, orch_vars, ca, tr, cb, rn>>

(***************************************************************************)
(* SliderCaptchaSolver.find_optimal_step_count, one loop iteration at a    *)
(* time, and SliderCaptchaSolver.solve                                     *)
(***************************************************************************)
\* list[:n]
Prefix(seq, n) == SubSeq(seq, 1, Min(n, Len(seq)))

\* the state before the first iteration (lines 163-169)
find_optimal_begin(original_image, swap_sequence, max_steps, tile_count) ==
    [original_image |-> original_image,
     swap_sequence |-> swap_sequence,
     max_steps |-> max_steps,
     tile_count |-> tile_count,
     step |-> 0,
     current_permutation |-> Identity(tile_count * tile_count),
     best_score |-> Inf,
     best_step |-> 0,
     best_swaps |-> <<>>]

\* the loop without its step bound
replay_continues_unbounded(st) ==
    ~(st.step * 2 + 1 >= Len(st.swap_sequence))

\* whether the for loop runs its body once more (lines 175-178)
replay_continues(st) ==
    /\ st.step < st.max_steps
    /\ ~(st.step * 2 + 1 >= Len(st.swap_sequence))

\* score < best_score
score_improves_or_ties(score, best_score) == best_score = Inf \/ score <= best_score

score_improves(score, best_score) == best_score = Inf \/ score < best_score

\* line 183 without `0 <=`: a negative index counts from the end of the list
swap_if_below_len(perm, a, b) ==
    IF a < Len(perm) /\ b < Len(perm)
    THEN SwapTiles(perm, a % Len(perm), b % Len(perm))
    ELSE perm

\* the permutation after the pair (a, b) (lines 183-184)
swap_if_in_range(perm, a, b) ==
    IF 0 <= a /\ a < Len(perm) /\ 0 <= b /\ b < Len(perm)
    THEN SwapTiles(perm, a, b)
    ELSE perm

\* a loop body that passes over a pair with an index out of range: the step
\* is counted, nothing is rendered or compared
replay_iter_skips_invalid(st) ==
    LET swap_index == st.step * 2
        a == st.swap_sequence[swap_index + 1]
        b == st.swap_sequence[swap_index + 2]
        n == Len(st.current_permutation)
        perm == swap_if_in_range(st.current_permutation, a, b)
        img == st.original_image
        tile_layout == compute_tile_layout(img.width, img.height, st.tile_count)
        score == calculate_seam_score(
                     apply_tile_permutation(img, tile_layout, perm,
                                            img.width, img.height),
                     st.tile_count)
        better == score_improves(score, st.best_score)
    IN  IF ~(0 <= a /\ a < n /\ 0 <= b /\ b < n)
        THEN [st EXCEPT !.step = st.step + 1]
        ELSE [st EXCEPT !.step = st.step + 1,
                        !.current_permutation = perm,
                        !.best_score = IF better THEN score ELSE st.best_score,
                        !.best_step = IF better THEN st.step + 1 ELSE st.best_step,
                        !.best_swaps = IF better
                                       THEN Prefix(st.swap_sequence, (st.step + 1) * 2)
                                       ELSE st.best_swaps]

\* the body of the for loop (lines 176-200)
replay_iter(st) ==
    LET swap_index == st.step * 2
        a == st.swap_sequence[swap_index + 1]
        b == st.swap_sequence[swap_index + 2]
        perm == swap_if_in_range(st.current_permutation, a, b)
        img == st.original_image
        tile_layout == compute_tile_layout(img.width, img.height, st.tile_count)
        permuted_image == apply_tile_permutation(img, tile_layout, perm,
                                                 img.width, img.height)
        score == calculate_seam_score(permuted_image, st.tile_count)
        better == score_improves(score, st.best_score)
    IN  [st EXCEPT !.step = st.step + 1,
                   !.current_permutation = perm,
                   !.best_score = IF better THEN score ELSE st.best_score,
                   !.best_step = IF better THEN st.step + 1 ELSE st.best_step,
                   !.best_swaps = IF better
                                  THEN Prefix(st.swap_sequence, (st.step + 1) * 2)
                                  ELSE st.best_swaps]

RECURSIVE replay_all(_)
replay_all(st) == IF replay_continues(st) THEN replay_all(replay_iter(st)) ELSE st

find_optimal_step_count(original_image, swap_sequence, max_steps, tile_count) ==
    LET st == replay_all(find_optimal_begin(original_image, swap_sequence,
                                            max_steps, tile_count))
    IN  <<st.best_step, st.best_swaps>>

\* content: image is [kind: "absent" | "empty" | "b64", name],
\*          steps is [kind: "absent" | "other" | "list", items]
image_missing(content) == content.image.kind # "b64"
steps_missing(content) ==
    content.steps.kind # "list" \/ Len(content.steps.items) = 0

\* line 18 without its len(raw_steps) == 0 test
solve_is_degenerate_no_len(content) ==
    image_missing(content) \/ content.steps.kind # "list"

\* line 18
solve_is_degenerate(content) == image_missing(content) \/ steps_missing(content)

\* raw_steps[1:] if len(raw_steps) > 1 else []
steps_keep_first(raw_steps) == raw_steps

steps_for_processing(raw_steps) ==
    IF Len(raw_steps) > 1 THEN Tail(raw_steps) ELSE <<>>

DegenerateResult == [stepCount |-> 0, selectedSwaps |-> <<>>]

\* SliderCaptchaSolver.solve as one call: the returned mapping, or "raised"
\* when the image cannot be decoded
slider_solve(content) ==
    IF solve_is_degenerate(content) THEN DegenerateResult
    ELSE IF content.image.name \notin ImageNames THEN "raised"
    ELSE LET r == find_optimal_step_count(DecodeImage(content.image.name),
                      steps_for_processing(content.steps.items),
                      DEFAULT_MAX_STEPS, DEFAULT_TILE_COUNT)
         IN  [stepCount |-> r[1], selectedSwaps |-> r[2]]

(***************************************************************************)
(* One call of SliderCaptchaSolver.solve, the replay loop one iteration    *)
(* per step.  decoded and rendered count the image decodes and renders.    *)
(***************************************************************************)
SwapVals == {-1, 0, 7, 25}
ShortSteps == UNION {[1..n -> SwapVals] : n \in 0..MaxRawSteps}

\* n elements: a first element, then pairs (-1, -1) except pair k = (0, 7)
LongSteps(n, k) ==
    [i \in 1..n |->
        IF i = 1 THEN 3
        ELSE IF i \div 2 = k THEN (IF i % 2 = 0 THEN 0 ELSE 7) ELSE -1]

\* longer sequences: several pairs, out-of-range indices, a trailing element
PickedSteps ==
    {<<3, 0, 7, 0, 7>>, <<3, 0, 7, 0, 7, 7>>, <<3, -1, 7, 0, 7, 25, 0, 7>>,
     <<3, 0, 7, 7, 0, 0, 7>>, <<3, 25, 0, 0, 7, 7, 0>>, <<0, 2, 7, 0, 7, 2, 7>>}

LongStepsSet ==
    {LongSteps(n, k) : n \in {100, 101, 102, 103, 104}, k \in {50, 51}}

ListSteps(items) == [kind |-> "list", items |-> items]
NoListSteps == {[kind |-> "absent", items |-> <<>>],
                [kind |-> "other", items |-> <<>>]}
B64Image(name) == [kind |-> "b64", name |-> name]
NoImages == {[kind |-> "absent", name |-> ""], [kind |-> "empty", name |-> ""]}

Content(image, steps) == [image |-> image, steps |-> steps, extension |-> "jpeg"]

SliderContents ==
    {Content(B64Image(n), ListSteps(s)) :
        n \in ImageNames, s \in ShortSteps \cup PickedSteps}
    \cup {Content(B64Image(n), ListSteps(s)) :
             n \in {"flat", "scrambled"}, s \in LongStepsSet}
    \cup {Content(B64Image(n), st) : n \in ImageNames \cup {"garbage"},
                                     st \in NoListSteps \cup {ListSteps(<<>>)}}
    \cup {Content(B64Image("garbage"), ListSteps(s)) : s \in {<<0>>, <<0, 0, 7>>}}
    \cup {Content(im, st) : im \in NoImages,
             st \in NoListSteps \cup {ListSteps(<<>>), ListSteps(<<0, 0, 7>>)}}

NoReplay == find_optimal_begin(None, <<>>, 0, 0)

SliderInputs ==
    {[pc |-> "call", content |-> c, st |-> NoReplay, ret |-> DegenerateResult,
      decoded |-> 0, rendered |-> 0] : c \in SliderContents}

\* lines 15-33: the guard, the decode and the start of the search
SliderSolveCall ==
    /\ sl.pc = "call"
    /\ sl' = IF solve_is_degenerate(sl.content)
             THEN [sl EXCEPT !.pc = "returned", !.ret = DegenerateResult]
             ELSE IF sl.content.image.name \notin ImageNames
             THEN [sl EXCEPT !.pc = "raised", !.decoded = 1]
             ELSE [sl EXCEPT !.pc = "loop", !.decoded = 1,
                      !.st = find_optimal_begin(
                                DecodeImage(sl.content.image.name),
                                steps_for_processing(sl.content.steps.items),
                                DEFAULT_MAX_STEPS, DEFAULT_TILE_COUNT)]
    /\ UNCHANGED <<pow_vars, lay, orch_vars, unit_vars>>

\* one iteration of the for loop
SliderReplayIter ==
    /\ sl.pc = "loop"
    /\ replay_continues(sl.st)
    /\ sl' = [sl EXCEPT !.st = replay_iter(sl.st), !.rendered = sl.rendered + 1]
    /\ UNCHANGED <<pow_vars, lay, orch_vars, unit_vars>>

\* lines 202 and 35-38
SliderSolveReturn ==
    /\ sl.pc = "loop"
    /\ ~replay_continues(sl.st)
    /\ sl' = [sl EXCEPT !.pc = "returned",
                        !.ret = [stepCount |-> sl.st.best_step,
                                 selectedSwaps |-> sl.st.best_swaps]]
    /\ UNCHANGED <<pow_vars, lay, orch_vars, unit_vars>>

(***************************************************************************)
(* CheckboxCaptchaSolver.generate_mouse_trace.  The random module is an    *)
(* input: the integers get_random_number returns, and the stream of        *)
(* random.random() values, each k / RandomDen for a k in 0..RandomDen-1.   *)
(***************************************************************************)
RandomDen == 12

Point(x, y) == [x |-> x, y |-> y]

\* the mapping passed as params: has_* tells whether the key is there
TraceParams(has_from, from, has_to, to, has_interval, intervalMs, has_duration, durationMs) ==
    [has_from |-> has_from, from |-> from, has_to |-> has_to, to |-> to,
     has_interval |-> has_interval, intervalMs |-> intervalMs,
     has_duration |-> has_duration, durationMs |-> durationMs]

NoTraceParams == TraceParams(FALSE, Point(0, 0), FALSE, Point(0, 0), FALSE, 0, FALSE, 0)

\* what get_random_number returns for the duration (2000..15000), for from
\* (x in 540..1080, y in 360..720) and for to (from - 300 .. from + 300)
Draws(duration, from, offset) == [duration |-> duration, from |-> from, offset |-> offset]

\* the k-th value of random.random() is ((a * k + b) % RandomDen) / RandomDen
Stream(a, b) == [a |-> a, b |-> b]

random_at(stream, k) == (stream.a * k + stream.b) % RandomDen

\* lines 40-54: params.get with its defaults
resolve_params(params, draws) ==
    LET from_pos == IF params.has_from THEN params.from ELSE draws.from
    IN  [from_pos |-> from_pos,
         to_pos |-> IF params.has_to THEN params.to
                    ELSE Point(from_pos.x + draws.offset.x, from_pos.y + draws.offset.y),
         interval_ms |-> IF params.has_interval THEN params.intervalMs ELSE 500,
         duration_ms |-> IF params.has_duration THEN params.durationMs
                         ELSE draws.duration]

\* one step more than line 56 computes
total_steps_plus_one(p) == p.duration_ms \div p.interval_ms + 1

\* line 56: math.floor(duration_ms / interval_ms)
total_steps(p) == p.duration_ms \div p.interval_ms

\* lines 68-69: round(start + d * eased_t + noise) with t = step / total,
\* eased_t = t * (2 - t) and noise = (random() - 0.5) * 6, as an exact
\* fraction over total^2 * RandomDen (over RandomDen when d * eased_t is 0)
coordinate(start, d, step, total, k) ==
    IF d * step = 0
    THEN PyRound(start * RandomDen + (6 * k - 3 * RandomDen), RandomDen)
    ELSE PyRound(start * total * total * RandomDen
                   + d * step * (2 * total - step) * RandomDen
                   + (6 * k - 3 * RandomDen) * total * total,
                 total * total * RandomDen)

\* lines 60-71: the point of one step; step draws random() twice
trace_point(p, stream, step) ==
    LET total == total_steps(p)
    IN  Point(coordinate(p.from_pos.x, p.to_pos.x - p.from_pos.x, step, total,
                         random_at(stream, 2 * step)),
              coordinate(p.from_pos.y, p.to_pos.y - p.from_pos.y, step, total,
                         random_at(stream, 2 * step + 1)))

\* the whole call, for interval_ms # 0
generate_mouse_trace(params, draws, stream) ==
    LET p == resolve_params(params, draws)
    IN  [i \in 1..total_steps(p) |-> trace_point(p, stream, i - 1)]

(***************************************************************************)
(* One call of generate_mouse_trace, the loop one iteration per step.      *)
(***************************************************************************)
MaxTraceSteps == 6

DrawCases ==
    {Draws(2000, Point(540, 360), Point(-300, 300)),
     Draws(2499, Point(1080, 720), Point(300, -300)),
     Draws(3000, Point(800, 500), Point(0, 7))}
LongDraws ==
    {Draws(15000, Point(1080, 360), Point(300, 300)),
     Draws(14999, Point(540, 720), Point(-300, -300))}

Streams == {Stream(a, b) : a \in {0, 1, 5}, b \in {0, RandomDen \div 2, RandomDen - 1}}

GivenParams ==
    {TraceParams(FALSE, Point(0, 0), FALSE, Point(0, 0), TRUE, 500, TRUE, 2000),
     TraceParams(TRUE, Point(100, 100), TRUE, Point(103, 40), TRUE, 300, TRUE, 1000),
     TraceParams(TRUE, Point(0, 0), FALSE, Point(0, 0), TRUE, 1000, TRUE, 999),
     TraceParams(FALSE, Point(0, 0), TRUE, Point(500, 500), TRUE, 7, TRUE, 7 * MaxTraceSteps),
     TraceParams(FALSE, Point(0, 0), FALSE, Point(0, 0), TRUE, 0, TRUE, 2000),
     TraceParams(FALSE, Point(0, 0), FALSE, Point(0, 0), TRUE, 500, FALSE, 0)}

TraceInputs ==
    {[pc |-> "called", params |-> q, draws |-> d, stream |-> s] :
        q \in GivenParams \cup {NoTraceParams}, d \in DrawCases, s \in Streams}
    \cup {[pc |-> "called", params |-> NoTraceParams, draws |-> d, stream |-> Stream(5, 3)] :
             d \in LongDraws}

\* lines 38-58; the division by a zero interval raises ZeroDivisionError
TraceCall ==
    /\ tr.pc = "called"
    /\ LET p == resolve_params(tr.params, tr.draws)
       IN  tr' = IF p.interval_ms = 0
                 THEN [tr EXCEPT !.pc = "raised"]
                 ELSE [pc |-> "loop", params |-> tr.params, draws |-> tr.draws,
                       stream |-> tr.stream, p |-> p,
                       total_steps |-> total_steps(p), step |-> 0,
                       points |-> <<>>]
    /\ UNCHANGED <<pow_vars, slider_vars, orch_vars, ca, cb, rn, sc>>

\* lines 60-75: one pass of `for step in range(total_steps)`
TraceIter ==
    /\ tr.pc = "loop"
    /\ tr.step < tr.total_steps
    /\ tr' = [tr EXCEPT !.points = Append(@, trace_point(tr.p, tr.stream, tr.step)),
                        !.step = @ + 1]
    /\ UNCHANGED <<pow_vars, slider_vars, orch_vars, ca, cb, rn, sc>>

\* line 77
TraceReturn ==
    /\ tr.pc = "loop"
    /\ tr.step >= tr.total_steps
    /\ tr' = [tr EXCEPT !.pc = "returned"]
    /\ UNCHANGED <<pow_vars, slider_vars, orch_vars, ca, cb, rn, sc>>

(***************************************************************************)
(* The remote service as one attempt meets it: what the page at the        *)
(* redirect_uri declares and which step of the protocol, if any, fails.    *)
(***************************************************************************)
PowCases ==
    {[powInput |-> <<10>>, difficulty |-> 0],
     [powInput |-> <<1, 11>>, difficulty |-> 2],
     [powInput |-> <<10>>, difficulty |-> DigestLen + 1]}

Methods == {"page", "settings", "getContent", "componentDone", "check", "endSession"}
Tokens == {"tokA", "tokB"}

SettingsCases ==
    {[has_list |-> TRUE, bridge_sensors_list |-> <<"cursor", "taps">>],
     [has_list |-> TRUE, bridge_sensors_list |-> <<"taps", "pointer">>],
     [has_list |-> FALSE, bridge_sensors_list |-> <<>>]}

SliderCases ==
    {Content(B64Image("scrambled"), ListSteps(<<3, 0, 7, 0, 7>>)),
     Content(B64Image("garbage"), ListSteps(<<0, 0, 7>>)),
     Content([kind |-> "absent", name |-> ""], ListSteps(<<0, 0, 7>>))}

NoContent == Content([kind |-> "absent", name |-> ""], ListSteps(<<>>))

Remote(variant, p, fails, token, settings, content) ==
    [variant |-> variant, powInput |-> p.powInput, difficulty |-> p.difficulty,
     fails |-> fails, token |-> token, settings |-> settings, content |-> content]

EasyPow == [powInput |-> <<10>>, difficulty |-> 0]
PlainSettings == [has_list |-> TRUE, bridge_sensors_list |-> <<"cursor", "taps">>]

Remotes ==
    {Remote("checkbox", p, f, t, s, NoContent) :
        p \in PowCases, f \in {"none"} \cup (Methods \ {"getContent"}),
        t \in Tokens, s \in SettingsCases}
    \cup {Remote("slider", p, f, t, PlainSettings, c) :
        p \in PowCases, f \in {"none"} \cup Methods, t \in Tokens,
        c \in SliderCases}
    \cup {Remote(v, EasyPow, f, "tokA", PlainSettings, NoContent) :
        v \in {"puzzle", "absent"}, f \in {"none", "page"}}
    \cup {Remote(v, EasyPow, "none", "missing", PlainSettings, NoContent) :
        v \in {"checkbox"}}

\* traces CheckboxCaptchaSolver.generate_mouse_trace can return
SampleTraces ==
    {generate_mouse_trace(NoTraceParams, Draws(2000, Point(540, 360), Point(-300, 300)), Stream(5, 3)),
     generate_mouse_trace(NoTraceParams, Draws(2999, Point(1080, 720), Point(12, -300)), Stream(1, 0))}

(***************************************************************************)
(* API.call: one HTTP exchange and the reading of its JSON envelope        *)
(***************************************************************************)
NoBody == [none |-> TRUE]

\* http: "ok" | "status_error" | "network_error".  For "ok" the JSON envelope
\* may have an `error` key (whose value is an object or not) and a `response`
\* key, whose value is an object or not and, when an object, may carry a
\* `status` field.  The status "" stands for the values Python counts as
\* false ("", 0, null).
Envelope(http, has_error, error_is_dict, has_response, is_dict, has_status, status, body) ==
    [http |-> http, has_error |-> has_error, error_is_dict |-> error_is_dict,
     has_response |-> has_response, is_dict |-> is_dict,
     has_status |-> has_status, status |-> status, body |-> body]

\* an exchange between the package and the service: objects throughout, and
\* status "" for a response without a status field
Exchange(http, has_error, has_response, status, body) ==
    Envelope(http, has_error, TRUE, has_response, TRUE, status # "", status, body)

OkExchange(body) == Exchange("ok", FALSE, TRUE, "OK", body)

FailingExchanges ==
    {Exchange("status_error", FALSE, FALSE, "", NoBody),
     Exchange("network_error", FALSE, FALSE, "", NoBody),
     Exchange("ok", TRUE, FALSE, "", NoBody),
     Exchange("ok", FALSE, TRUE, "ERROR", NoBody)}

\* bool(value) of a status value
truthy(status) == status # ""

\* line 221: isinstance(resp, dict) and resp.get("status") and
\* resp["status"] != "OK"
bad_status(x) ==
    x.is_dict /\ x.has_status /\ truthy(x.status) /\ x.status # "OK"

\* the two key tests in the other order: a response is read before an error
api_call_response_first(x) ==
    IF x.http = "status_error" THEN [raised |-> "HTTPError", value |-> NoBody]
    ELSE IF x.http = "network_error"
    THEN [raised |-> "VKCaptchaSolverError", value |-> NoBody]
    ELSE IF x.has_response
    THEN IF bad_status(x)
         THEN [raised |-> "APIError", value |-> NoBody]
         ELSE [raised |-> None, value |-> x.body]
    ELSE IF x.has_error
    THEN IF x.error_is_dict THEN [raised |-> "APIError", value |-> NoBody]
         ELSE [raised |-> "AttributeError", value |-> NoBody]
    ELSE [raised |-> None, value |-> [envelope |-> TRUE]]

\* lines 207-235.  APIError.__init__ (exceptions.py lines 25-31) calls
\* error.get, which an `error` value that is no object does not have.
api_call(x) ==
    IF x.http = "status_error" THEN [raised |-> "HTTPError", value |-> NoBody]
    ELSE IF x.http = "network_error"
    THEN [raised |-> "VKCaptchaSolverError", value |-> NoBody]
    ELSE IF x.has_error
    THEN IF x.error_is_dict THEN [raised |-> "APIError", value |-> NoBody]
         ELSE [raised |-> "AttributeError", value |-> NoBody]
    ELSE IF x.has_response
    THEN IF bad_status(x)
         THEN [raised |-> "APIError", value |-> NoBody]
         ELSE [raised |-> None, value |-> x.body]
    ELSE [raised |-> None, value |-> [envelope |-> TRUE]]

(***************************************************************************)
(* One call of API.call on its own: the exchange, then the reading of the  *)
(* envelope.                                                               *)
(***************************************************************************)
Statuses == {"", "OK", "ERROR", "ok", "PENDING"}
Bodies == {[n |-> 1], [n |-> 2], [n |-> 3]}

Envelopes ==
    {Envelope("ok", e, ed, r, d, hs, st, b) :
        e \in BOOLEAN, ed \in BOOLEAN, r \in BOOLEAN, d \in BOOLEAN,
        hs \in BOOLEAN, st \in Statuses, b \in Bodies}
    \cup {Envelope(h, FALSE, TRUE, FALSE, TRUE, FALSE, "", NoBody) :
             h \in {"status_error", "network_error"}}

\* envelopes that can be written down: only an object has fields
WellFormed(x) ==
    /\ x.has_error \/ x.error_is_dict
    /\ x.has_response \/ x.is_dict
    /\ (x.has_response /\ x.is_dict) \/ ~x.has_status
    /\ x.has_status \/ x.status = ""

CallInputs == {[pc |-> "sent", x |-> x] : x \in {y \in Envelopes : WellFormed(y)}}

\* the exchange comes back and the envelope is read
CallReturn ==
    /\ ca.pc = "sent"
    /\ ca' = [pc |-> "returned", x |-> ca.x, out |-> api_call(ca.x)]
    /\ UNCHANGED <<pow_vars, slider_vars, orch_vars, tr, cb, rn, sc>>

\* get_initial_params: the GET and the parsing of the page (lines 80-141)
PageFailures == {"HTTPError", "VKCaptchaSolverError"}

(***************************************************************************)
(* CaptchaSolver: the solver object, its transports and the attempts       *)
(***************************************************************************)
NoApi == 0
Attempts == 1..NAttempts
ApiIds == 1..NAttempts

\* a transport object that does carry a `closed` attribute
WithClosed(api, closed) == [api EXCEPT !.closed_attr = closed]

\* an object of class API as API.__init__ leaves it: no HTTP session yet,
\* and no attribute named `closed` (the class defines none)
NewApi == [made |-> TRUE, closed_attr |-> "absent", session |-> "none",
           opened |-> 0, shut |-> 0]
NoApiObject == [made |-> FALSE, closed_attr |-> "absent", session |-> "none",
                opened |-> 0, shut |-> 0]

NoInitial ==
    [data |-> [show_captcha_type |-> "", domain |-> "", session_token |-> ""],
     difficulty |-> 0, powInput |-> <<>>]

IdleAttempt ==
    [pc |-> "idle", kind |-> "none",
     uri |-> Remote("", EasyPow, "none", "", PlainSettings, NoContent),
     api |-> NoApi, initial |-> NoInitial, settings |-> PlainSettings,
     pow |-> PowIdle, pow_hash |-> <<>>, check_params |-> <<>>,
     sent |-> <<>>, content |-> NoContent,
     response |-> [has_token |-> FALSE, success_token |-> ""],
     result |-> None, error |-> None, log |-> <<>>, via |-> <<>>,
     inflight |-> None]

Running(r) == r.pc \notin {"idle", "done", "failed"}

\* where control goes when an exception leaves the current statement: out of
\* solve to its caller, which is the `finally` of session() when there is one
propagate_retry(r) == r.pc

propagate(r) == IF r.kind = "solve" THEN "failed" ELSE "exit"

raised(r, err) ==
    [r EXCEPT !.pc = propagate(r), !.error = err, !.inflight = None]

\* the event loop after attempt a's coroutine ran up to record r
LoopAfter(a, r) == IF r.pc \in {"done", "failed"} THEN 0 ELSE a

Event(r, name, phase) == [r EXCEPT !.log = Append(r.log, <<name, phase>>)]

\* `await self._api.<method>(...)` up to the suspension in the HTTP request:
\* the attribute is read when the call is made; API._get_session opens the
\* ClientSession of that object when it has none (api.py lines 43-49)
TransportCall(a, method, args, wait_pc) ==
    IF solver_api = NoApi
    THEN /\ att' = [att EXCEPT ![a] = raised(att[a], "AttributeError")]
         /\ cur' = LoopAfter(a, att'[a])
         /\ UNCHANGED <<solver_api, apis>>
    ELSE /\ att' = [att EXCEPT ![a] =
                      [Event(att[a], method, "call") EXCEPT
                          !.pc = wait_pc, !.inflight = method, !.sent = args,
                          !.via = Append(att[a].via, solver_api)]]
         /\ apis' = [apis EXCEPT ![solver_api] =
                      IF @.session = "open" THEN @
                      ELSE [@ EXCEPT !.session = "open", !.opened = @ + 1]]
         /\ cur' = 0
         /\ UNCHANGED solver_api

\* the request of attempt a comes back failed
TransportFails(a, method, err) ==
    /\ att' = [att EXCEPT ![a] = raised(Event(att[a], method, "fail"), err)]
    /\ cur' = LoopAfter(a, att'[a])
    /\ UNCHANGED <<solver_api, apis>>


(***************************************************************************)
(* CaptchaSolver.solve, statement by statement.  An action of attempt a    *)
(* needs the event loop (cur = a); a call suspends the coroutine at the    *)
(* HTTP request or at the executor (cur' = 0) and a return resumes it.     *)
(***************************************************************************)
\* lines 92-95: the active-session guard.  `self._api.closed` is an attribute
\* read: on an object without that attribute it raises AttributeError.
SolveGuard(a) ==
    /\ att[a].pc = "guard" /\ cur = a
    /\ att' = [att EXCEPT ![a] =
          IF solver_api = NoApi THEN raised(@, "VKCaptchaSolverError")
          ELSE IF apis[solver_api].closed_attr = "absent"
          THEN raised(@, "AttributeError")
          ELSE IF apis[solver_api].closed_attr = "true"
          THEN raised(@, "VKCaptchaSolverError")
          ELSE [@ EXCEPT !.pc = "fetch_page"]]
    /\ cur' = LoopAfter(a, att'[a])
    /\ UNCHANGED <<solver_api, apis, pow_vars, slider_vars, unit_vars>>

\* line 97
GetInitialParamsCall(a) ==
    /\ att[a].pc = "fetch_page" /\ cur = a
    /\ TransportCall(a, "page", att[a].uri, "wait_page")
    /\ UNCHANGED <<pow_vars, slider_vars, unit_vars>>

\* line 100
known_captcha_type_any(captcha_type) == TRUE

known_captcha_type(captcha_type) == captcha_type \in {"slider", "checkbox"}

\* lines 97-101: the page comes back, or the fetch or its parsing fails
GetInitialParamsReturn(a) ==
    /\ att[a].pc = "wait_page" /\ cur = 0
    /\ IF att[a].uri.fails = "page"
       THEN \E err \in PageFailures : TransportFails(a, "page", err)
       ELSE LET initial == [data |-> [show_captcha_type |-> att[a].uri.variant,
                                      domain |-> "vk.com",
                                      session_token |-> "session"],
                            difficulty |-> att[a].uri.difficulty,
                            powInput |-> att[a].uri.powInput]
                r == [Event(att[a], "page", "ret") EXCEPT
                         !.inflight = None, !.initial = initial]
            IN  /\ att' = [att EXCEPT ![a] =
                      IF known_captcha_type(initial.data.show_captcha_type)
                      THEN [r EXCEPT !.pc = "settings"]
                      ELSE raised(r, "VKCaptchaSolverError")]
                /\ cur' = LoopAfter(a, att'[a])
                /\ UNCHANGED <<solver_api, apis>>
    /\ UNCHANGED <<pow_vars, slider_vars, unit_vars>>

\* initial["data"]["domain"], initial["data"]["session_token"]
session_data(initial) ==
    [domain |-> initial.data.domain, session_token |-> initial.data.session_token]

\* line 103
GetSettingsCall(a) ==
    /\ att[a].pc = "settings" /\ cur = a
    /\ TransportCall(a, "settings", session_data(att[a].initial), "wait_settings")
    /\ UNCHANGED <<pow_vars, slider_vars, unit_vars>>

GetSettingsReturn(a) ==
    /\ att[a].pc = "wait_settings" /\ cur = 0
    /\ IF att[a].uri.fails = "settings"
       THEN \E x \in FailingExchanges :
               TransportFails(a, "settings", api_call(x).raised)
       ELSE /\ att' = [att EXCEPT ![a] =
                  [Event(@, "settings", "ret") EXCEPT
                      !.inflight = None, !.pc = "pow_submit",
                      !.settings = api_call(OkExchange(att[a].uri.settings)).value]]
            /\ cur' = a
            /\ UNCHANGED <<solver_api, apis>>
    /\ UNCHANGED <<pow_vars, slider_vars, unit_vars>>

\* lines 106-109: the search is handed to the executor
PowSubmit(a) ==
    /\ att[a].pc = "pow_submit" /\ cur = a
    /\ att' = [att EXCEPT ![a] =
          [Event(@, "pow", "start") EXCEPT
              !.pc = "wait_pow",
              !.pow = generate_pow_begin(att[a].initial.powInput,
                                         att[a].initial.difficulty)]]
    /\ cur' = 0
    /\ UNCHANGED <<solver_api, apis, pow_vars, slider_vars, unit_vars>>

\* the executor thread runs one iteration of _generate_pow
PowWorker(a) ==
    /\ att[a].pc = "wait_pow"
    /\ att[a].pow.pc = "loop"
    /\ att[a].pow.nonce < MaxNonce
    /\ att' = [att EXCEPT ![a].pow = generate_pow_iter(@)]
    /\ UNCHANGED <<solver_api, apis, cur, pow_vars, slider_vars, unit_vars>>

\* base64.b64encode(json.dumps(obj).encode()).decode()
B64Json(obj) == [encoding |-> "base64", of |-> [encoding |-> "json", of |-> obj]]

EmptyObject == [has_value |-> FALSE, value |-> <<>>]

\* lines 198-210
build_check_params_no_hash(initial, pow_hash) ==
    [domain |-> initial.data.domain,
     session_token |-> initial.data.session_token,
     hash |-> <<>>,
     answer |-> B64Json(EmptyObject),
     accelerometer |-> <<>>, cursor |-> <<>>, gyroscope |-> <<>>,
     motion |-> <<>>, taps |-> <<>>]

build_check_params(initial, pow_hash) ==
    [domain |-> initial.data.domain,
     session_token |-> initial.data.session_token,
     hash |-> pow_hash,
     answer |-> B64Json(EmptyObject),
     accelerometer |-> <<>>, cursor |-> <<>>, gyroscope |-> <<>>,
     motion |-> <<>>, taps |-> <<>>]

\* lines 113-118: the first step of the variant's branch
dispatch_same(captcha_type) == "component_done"

dispatch(captcha_type) ==
    IF captcha_type = "checkbox" THEN "component_done" ELSE "get_content"

\* lines 107-118: the executor's result arrives; the payload is started
PowDone(a) ==
    /\ att[a].pc = "wait_pow" /\ cur = 0
    /\ att[a].pow.pc = "returned"
    /\ att' = [att EXCEPT ![a] =
          [Event(@, "pow", "done") EXCEPT
              !.pow_hash = att[a].pow.ret,
              !.check_params = build_check_params(att[a].initial, att[a].pow.ret),
              !.pc = dispatch(att[a].initial.data.show_captcha_type)]]
    /\ cur' = a
    /\ UNCHANGED <<solver_api, apis, pow_vars, slider_vars, unit_vars>>

\* line 232
GetContentCall(a) ==
    /\ att[a].pc = "get_content" /\ cur = a
    /\ TransportCall(a, "getContent", session_data(att[a].initial), "wait_content")
    /\ UNCHANGED <<pow_vars, slider_vars, unit_vars>>

GetContentReturn(a) ==
    /\ att[a].pc = "wait_content" /\ cur = 0
    /\ IF att[a].uri.fails = "getContent"
       THEN \E x \in FailingExchanges :
               TransportFails(a, "getContent", api_call(x).raised)
       ELSE /\ att' = [att EXCEPT ![a] =
                  [Event(@, "getContent", "ret") EXCEPT
                      !.inflight = None, !.pc = "component_done",
                      !.content = api_call(OkExchange(att[a].uri.content)).value]]
            /\ cur' = a
            /\ UNCHANGED <<solver_api, apis>>
    /\ UNCHANGED <<pow_vars, slider_vars, unit_vars>>

\* lines 216 and 234
ComponentDoneCall(a) ==
    /\ att[a].pc = "component_done" /\ cur = a
    /\ TransportCall(a, "componentDone", session_data(att[a].initial), "wait_component_done")
    /\ UNCHANGED <<pow_vars, slider_vars, unit_vars>>

ComponentDoneReturn(a) ==
    /\ att[a].pc = "wait_component_done" /\ cur = 0
    /\ IF att[a].uri.fails = "componentDone"
       THEN \E x \in FailingExchanges :
               TransportFails(a, "componentDone", api_call(x).raised)
       ELSE /\ att' = [att EXCEPT ![a] =
                  [Event(@, "componentDone", "ret") EXCEPT
                      !.inflight = None,
                      !.pc = IF att[a].initial.data.show_captcha_type = "checkbox"
                             THEN "checkbox_solve" ELSE "slider_submit"]]
            /\ cur' = a
            /\ UNCHANGED <<solver_api, apis>>
    /\ UNCHANGED <<pow_vars, slider_vars, unit_vars>>

\* dict.update
DictUpdate(d, u) ==
    [k \in DOMAIN d \cup DOMAIN u |-> IF k \in DOMAIN u THEN u[k] ELSE d[k]]

\* checkbox_solver.py lines 11 and 22
max_sensors_data_size_kb == 900
avg_bytes_per_point == 20

\* lines 21-24
max_points == (max_sensors_data_size_kb * 1024) \div avg_bytes_per_point

\* lines 26-27 left out
cut_never(cursor) == cursor

\* lines 26-27: cursor[:max_points] when len(cursor) > max_points
cut_to_budget(cursor) ==
    IF Len(cursor) > max_points THEN SubSeq(cursor, 1, max_points) ELSE cursor

\* CheckboxCaptchaSolver.solve, given the trace generate_mouse_trace returned
checkbox_solve(sensors_list, cursor) ==
    [s \in {sensors_list[i] : i \in 1..Len(sensors_list)} |->
        IF s = "cursor" THEN cut_to_budget(cursor) ELSE <<>>]

(***************************************************************************)
(* One call of CheckboxCaptchaSolver.solve(sensors_list, params).          *)
(***************************************************************************)
SensorLists ==
    {<<>>, <<"cursor">>, <<"taps">>, <<"cursor", "taps">>, <<"cursor", "cursor">>,
     <<"taps", "gyroscope", "cursor", "motion", "accelerometer">>,
     <<"pointer", "taps">>}

\* from = to and a constant random stream: every point is the same
StillTrace(n) == TraceParams(TRUE, Point(5, 9), TRUE, Point(5, 9), TRUE, 1, TRUE, n)

CheckboxInputs ==
    {[pc |-> "called", sensors_list |-> l, params |-> q, draws |-> d, stream |-> Stream(5, 3)] :
        l \in SensorLists, q \in GivenParams \cup {NoTraceParams}, d \in DrawCases}
    \cup {[pc |-> "called", sensors_list |-> l, params |-> StillTrace(n),
            draws |-> Draws(2000, Point(540, 360), Point(0, 0)), stream |-> Stream(0, 7)] :
             l \in {<<"cursor", "taps">>, <<"taps">>},
             n \in {max_points, max_points + 1}}

\* lines 18-33
CheckboxSolverSolve ==
    /\ cb.pc = "called"
    /\ cb' = IF resolve_params(cb.params, cb.draws).interval_ms = 0
             THEN [cb EXCEPT !.pc = "raised"]
             ELSE LET cursor == generate_mouse_trace(cb.params, cb.draws, cb.stream)
                  IN  [pc |-> "returned", sensors_list |-> cb.sensors_list,
                       params |-> cb.params, draws |-> cb.draws,
                       stream |-> cb.stream, trace |-> cursor,
                       ret |-> checkbox_solve(cb.sensors_list, cursor)]
    /\ UNCHANGED <<pow_vars, slider_vars, orch_vars, ca, tr, rn, sc>>

\* lines 218-222
CheckboxSolve(a) ==
    /\ att[a].pc = "checkbox_solve" /\ cur = a
    /\ \E cursor \in SampleTraces :
          att' = [att EXCEPT ![a] =
              [Event(@, "checkbox_solver", "run") EXCEPT
                  !.check_params = DictUpdate(att[a].check_params,
                      checkbox_solve(IF att[a].settings.has_list
                                     THEN att[a].settings.bridge_sensors_list
                                     ELSE <<>>, cursor)),
                  !.pc = "check"]]
    /\ UNCHANGED <<solver_api, apis, cur, pow_vars, slider_vars, unit_vars>>

\* lines 236-237: SliderCaptchaSolver.solve is handed to the executor
SliderSubmit(a) ==
    /\ att[a].pc = "slider_submit" /\ cur = a
    /\ att' = [att EXCEPT ![a] =
          [Event(@, "slider_solver", "run") EXCEPT !.pc = "wait_slider"]]
    /\ cur' = 0
    /\ UNCHANGED <<solver_api, apis, pow_vars, slider_vars, unit_vars>>

\* lines 237-242: the executor's result (or its exception) arrives
SliderDone(a) ==
    /\ att[a].pc = "wait_slider" /\ cur = 0
    /\ att' = [att EXCEPT ![a] =
          IF ~solve_is_degenerate(@.content)
             /\ @.content.image.name \notin ImageNames
          THEN raised(@, "UnidentifiedImageError")
          ELSE [@ EXCEPT
                  !.check_params = [@ EXCEPT !.answer =
                      B64Json([has_value |-> TRUE,
                               value |-> slider_solve(att[a].content).selectedSwaps])],
                  !.pc = "check"]]
    /\ cur' = LoopAfter(a, att'[a])
    /\ UNCHANGED <<solver_api, apis, pow_vars, slider_vars, unit_vars>>

\* line 120
CheckCall(a) ==
    /\ att[a].pc = "check" /\ cur = a
    /\ TransportCall(a, "check", att[a].check_params, "wait_check")
    /\ UNCHANGED <<pow_vars, slider_vars, unit_vars>>

CheckReturn(a) ==
    /\ att[a].pc = "wait_check" /\ cur = 0
    /\ IF att[a].uri.fails = "check"
       THEN \E x \in FailingExchanges :
               TransportFails(a, "check", api_call(x).raised)
       ELSE /\ att' = [att EXCEPT ![a] =
                  [Event(@, "check", "ret") EXCEPT
                      !.inflight = None, !.pc = "end_session",
                      !.response = api_call(OkExchange(
                          [has_token |-> att[a].uri.token # "missing",
                           success_token |-> att[a].uri.token])).value]]
            /\ cur' = a
            /\ UNCHANGED <<solver_api, apis>>
    /\ UNCHANGED <<pow_vars, slider_vars, unit_vars>>

\* line 122
EndSessionCall(a) ==
    /\ att[a].pc = "end_session" /\ cur = a
    /\ TransportCall(a, "endSession", session_data(att[a].initial), "wait_end_session")
    /\ UNCHANGED <<pow_vars, slider_vars, unit_vars>>

\* a failure of endSession caught and passed over: solve goes on to return
EndSessionReturn_swallows_failure(a) ==
    /\ att[a].pc = "wait_end_session" /\ cur = 0
    /\ att' = [att EXCEPT ![a] =
          [Event(@, "endSession",
                 IF att[a].uri.fails = "endSession" THEN "fail" ELSE "ret") EXCEPT
              !.inflight = None, !.pc = "return"]]
    /\ cur' = a
    /\ UNCHANGED <<solver_api, apis>>
    /\ UNCHANGED <<pow_vars, slider_vars, unit_vars>>

EndSessionReturn(a) ==
    /\ att[a].pc = "wait_end_session" /\ cur = 0
    /\ IF att[a].uri.fails = "endSession"
       THEN \E x \in FailingExchanges :
               TransportFails(a, "endSession", api_call(x).raised)
       ELSE /\ att' = [att EXCEPT ![a] =
                  [Event(@, "endSession", "ret") EXCEPT
                      !.inflight = None, !.pc = "return"]]
            /\ cur' = a
            /\ UNCHANGED <<solver_api, apis>>
    /\ UNCHANGED <<pow_vars, slider_vars, unit_vars>>

\* the value of `return response["success_token"]`
returned_token(response) == response.success_token

\* line 124; a response without the key raises KeyError
SolveReturn(a) ==
    /\ att[a].pc = "return" /\ cur = a
    /\ att' = [att EXCEPT ![a] =
          IF ~@.response.has_token THEN raised(@, "KeyError")
          ELSE [Event(@, "solve", "return") EXCEPT
                  !.result = returned_token(att[a].response),
                  !.pc = IF att[a].kind = "solve" THEN "done" ELSE "exit"]]
    /\ cur' = LoopAfter(a, att'[a])
    /\ UNCHANGED <<solver_api, apis, pow_vars, slider_vars, unit_vars>>

(***************************************************************************)
(* Entry points: solve called directly, and the two vkbottle handlers,     *)
(* which run solve inside `async with self.session(proxy)`.                *)
(***************************************************************************)
Started(kind, uri, api) ==
    [IdleAttempt EXCEPT !.kind = kind, !.uri = uri, !.api = api]

\* a caller awaits solver.solve(redirect_uri)
SolveCall(a, uri) ==
    /\ att[a].pc = "idle" /\ cur = 0
    /\ att' = [att EXCEPT ![a] = [Started("solve", uri, NoApi) EXCEPT !.pc = "guard"]]
    /\ cur' = a
    /\ UNCHANGED <<solver_api, apis, pow_vars, slider_vars, unit_vars>>

\* session(), line 73: self._api = self._create_api(proxy)
SessionEnter(a) ==
    /\ solver_api' = a
    /\ apis' = [apis EXCEPT ![a] = NewApi]

\* lines 145-146
CaptchaHandlerCall(a, uri) ==
    /\ att[a].pc = "idle" /\ cur = 0
    /\ SessionEnter(a)
    /\ att' = [att EXCEPT ![a] = [Started("captcha", uri, a) EXCEPT !.pc = "guard"]]
    /\ cur' = a
    /\ UNCHANGED <<pow_vars, slider_vars, unit_vars>>

\* lines 161-163
ValidationHandlerCall(a, uri) ==
    /\ att[a].pc = "idle" /\ cur = 0
    /\ SessionEnter(a)
    /\ att' = [att EXCEPT ![a] =
          [Started("validation", uri, a) EXCEPT !.pc = "session_data"]]
    /\ cur' = a
    /\ UNCHANGED <<pow_vars, slider_vars, unit_vars>>

\* line 164
GetSessionDataCall(a) ==
    /\ att[a].pc = "session_data" /\ cur = a
    /\ TransportCall(a, "sessionData", NoBody, "wait_session_data")
    /\ UNCHANGED <<pow_vars, slider_vars, unit_vars>>

\* api.py lines 56-76: the page arrives with its session_token and cookie, or
\* the request fails, or the token is not found in the page
GetSessionDataReturn(a) ==
    /\ att[a].pc = "wait_session_data" /\ cur = 0
    /\ \E outcome \in {"ok"} \cup PageFailures :
          IF outcome # "ok"
          THEN TransportFails(a, "sessionData", outcome)
          ELSE /\ att' = [att EXCEPT ![a] =
                     [Event(@, "sessionData", "ret") EXCEPT
                         !.inflight = None, !.pc = "guard"]]
               /\ cur' = a
               /\ UNCHANGED <<solver_api, apis>>
    /\ UNCHANGED <<pow_vars, slider_vars, unit_vars>>

\* API.close, api.py lines 51-54
api_close(api) ==
    IF api.session = "open"
    THEN [api EXCEPT !.session = "closed", !.shut = @ + 1]
    ELSE api

\* how the handler ends once the `finally` of session() is through
Finished(r) == [r EXCEPT !.pc = IF r.error = None THEN "done" ELSE "failed"]

\* line 196: self._api = None
reset_api(api_ref) == NoApi

\* session() line 77 and _close_api, lines 192-196: `self._api.closed` is
\* read whenever self._api is an object; an exception raised here replaces
\* the result or the exception of the body
SessionExit(a) ==
    /\ att[a].pc = "exit" /\ cur = a
    /\ IF solver_api = NoApi
       THEN /\ att' = [att EXCEPT ![a] = Finished(@)]
            /\ solver_api' = reset_api(solver_api)
            /\ UNCHANGED apis
       ELSE IF apis[solver_api].closed_attr = "absent"
       THEN /\ att' = [att EXCEPT ![a] =
                  [@ EXCEPT !.pc = "failed", !.error = "AttributeError",
                            !.result = None]]
            /\ UNCHANGED <<solver_api, apis>>
       ELSE /\ att' = [att EXCEPT ![a] = Finished(@)]
            /\ apis' = [apis EXCEPT ![solver_api] =
                  IF @.closed_attr = "false" THEN api_close(@) ELSE @]
            /\ solver_api' = reset_api(solver_api)
    /\ cur' = 0
    /\ UNCHANGED <<pow_vars, slider_vars, unit_vars>>

(***************************************************************************)
(* Specifications                                                          *)
(***************************************************************************)
OrchIdle ==
    /\ solver_api = NoApi
    /\ apis = [i \in ApiIds |-> NoApiObject]
    /\ att = [a \in Attempts |-> IdleAttempt]
    /\ cur = 0

InitPow == pw = PowIdle /\ lay = LayIdle /\ sl = SlIdle /\ OrchIdle /\ UnitsIdle
NextPow == PowCall \/ PowIter
SpecPow == InitPow /\ [][NextPow]_vars
InitLayout == pw = PowIdle /\ lay \in LayoutInputs /\ sl = SlIdle /\ OrchIdle /\ UnitsIdle
NextLayout == LayoutReturn
SpecLayout == InitLayout /\ [][NextLayout]_vars
InitSlider == pw = PowIdle /\ lay = LayIdle /\ sl \in SliderInputs /\ OrchIdle /\ UnitsIdle
NextSlider == SliderSolveCall \/ SliderReplayIter \/ SliderSolveReturn
SpecSlider == InitSlider /\ [][NextSlider]_vars

\* One call of solve on a solver whose _api is None, an object of class API,
\* or a transport object that carries `closed` (False or True).
Transports ==
    {NoApiObject, NewApi, WithClosed(NewApi, "false"), WithClosed(NewApi, "true")}

InitRender ==
    /\ pw = PowIdle /\ lay = LayIdle /\ sl = SlIdle /\ OrchIdle
    /\ ca = CallIdle /\ tr = TraceIdle /\ cb = CbIdle
    /\ rn \in RenderInputs /\ sc = ScoreIdle
NextRender == RenderReturn
SpecRender == InitRender /\ [][NextRender]_vars

InitScore ==
    /\ pw = PowIdle /\ lay = LayIdle /\ sl = SlIdle /\ OrchIdle
    /\ ca = CallIdle /\ tr = TraceIdle /\ cb = CbIdle
    /\ rn = RenderIdle /\ sc \in ScoreInputs
NextScore == ScoreReturn
SpecScore == InitScore /\ [][NextScore]_vars

InitTrace ==
    /\ pw = PowIdle /\ lay = LayIdle /\ sl = SlIdle /\ OrchIdle
    /\ ca = CallIdle /\ tr \in TraceInputs /\ cb = CbIdle
    /\ rn = RenderIdle /\ sc = ScoreIdle
NextTrace == TraceCall \/ TraceIter \/ TraceReturn
SpecTrace == InitTrace /\ [][NextTrace]_vars

InitCheckbox ==
    /\ pw = PowIdle /\ lay = LayIdle /\ sl = SlIdle /\ OrchIdle
    /\ ca = CallIdle /\ tr = TraceIdle /\ cb \in CheckboxInputs
    /\ rn = RenderIdle /\ sc = ScoreIdle
NextCheckbox == CheckboxSolverSolve
SpecCheckbox == InitCheckbox /\ [][NextCheckbox]_vars

InitCall ==
    /\ pw = PowIdle /\ lay = LayIdle /\ sl = SlIdle /\ OrchIdle
    /\ ca \in CallInputs /\ tr = TraceIdle /\ cb = CbIdle
    /\ rn = RenderIdle /\ sc = ScoreIdle
NextCall == CallReturn
SpecCall == InitCall /\ [][NextCall]_vars

InitSolve ==
    /\ pw = PowIdle /\ lay = LayIdle /\ sl = SlIdle /\ UnitsIdle
    /\ \E t \in Transports :
          /\ solver_api = IF t.made THEN 1 ELSE NoApi
          /\ apis = [i \in ApiIds |-> IF i = 1 THEN t ELSE NoApiObject]
    /\ att = [a \in Attempts |-> IdleAttempt]
    /\ cur = 0

SolveSteps(a) ==
    \/ SolveGuard(a)
    \/ GetInitialParamsCall(a) \/ GetInitialParamsReturn(a)
    \/ GetSettingsCall(a) \/ GetSettingsReturn(a)
    \/ PowSubmit(a) \/ PowWorker(a) \/ PowDone(a)
    \/ GetContentCall(a) \/ GetContentReturn(a)
    \/ ComponentDoneCall(a) \/ ComponentDoneReturn(a)
    \/ CheckboxSolve(a)
    \/ SliderSubmit(a) \/ SliderDone(a)
    \/ CheckCall(a) \/ CheckReturn(a)
    \/ EndSessionCall(a) \/ EndSessionReturn(a)
    \/ SolveReturn(a)

NextSolve ==
    \/ \E uri \in Remotes : SolveCall(1, uri)
    \/ SolveSteps(1)

SpecSolve == InitSolve /\ [][NextSolve]_vars

\* The solver as the package builds it: every transport is an object of
\* class API made by session().  Handlers and direct calls of solve start at
\* any time on the one solver object.  The guard of solve is the last
\* statement of solve such an attempt executes, so the steps after it are
\* not part of this specification.
SessionRemotes ==
    {Remote("checkbox", EasyPow, "none", "tokA", PlainSettings, NoContent),
     Remote("slider", EasyPow, "none", "tokB", PlainSettings,
            Content(B64Image("scrambled"), ListSteps(<<3, 0, 7, 0, 7>>))),
     Remote("puzzle", EasyPow, "none", "tokA", PlainSettings, NoContent)}

Init == pw = PowIdle /\ lay = LayIdle /\ sl = SlIdle /\ OrchIdle /\ UnitsIdle

Next ==
    \E a \in Attempts :
        \/ \E uri \in SessionRemotes : SolveCall(a, uri)
        \/ \E uri \in SessionRemotes : CaptchaHandlerCall(a, uri)
        \/ \E uri \in SessionRemotes : ValidationHandlerCall(a, uri)
        \/ GetSessionDataCall(a)
        \/ GetSessionDataReturn(a)
        \/ SolveGuard(a)
        \/ SessionExit(a)

Spec == Init /\ [][Next]_vars

(***************************************************************************)
(* C1: the search returns the digest of seed||decimal(n) for the smallest  *)
(* n >= 1 whose digest has at least `difficulty` leading '0' characters:   *)
(* while it runs, every nonce from 1 up to the current one has been tried  *)
(* and has failed (none skipped); for difficulty 0 nonce 1 is returned.    *)
(***************************************************************************)
RECURSIVE LeadingZeros(_)
LeadingZeros(h) ==
    IF h = <<>> \/ Head(h) # 0 THEN 0 ELSE 1 + LeadingZeros(Tail(h))

Qualifies(seed, d, n) == LeadingZeros(sha256_hexdigest(seed \o Decimal(n))) >= d

C1_PowReturnsFirstQualifying ==
    /\ pw.pc = "loop" =>
          \A k \in 1..pw.nonce : ~Qualifies(pw.input_str, pw.difficulty, k)
    /\ pw.pc = "returned" =>
          /\ pw.nonce >= 1
          /\ pw.ret = sha256_hexdigest(pw.input_str \o Decimal(pw.nonce))
          /\ LeadingZeros(pw.ret) >= pw.difficulty
          /\ \A k \in 1..(pw.nonce - 1) :
                ~Qualifies(pw.input_str, pw.difficulty, k)
          /\ (pw.difficulty = 0 => pw.nonce = 1)

C1_Witness ==
    /\ pw.pc = "returned"
    /\ pw.difficulty >= 2
    /\ pw.nonce >= 11

(***************************************************************************)
(* C2: a returned stepCount is in 0..50, the returned swaps have           *)
(* 2 * stepCount elements and are the elements 2 .. 2 * stepCount + 1 of   *)
(* the sequence as received (its first element dropped).                   *)
(***************************************************************************)
C2_StepCountAndSwapPrefix ==
    (sl.pc = "returned" /\ sl.content.steps.kind = "list") =>
        LET raw == sl.content.steps.items
            k == sl.ret.stepCount
        IN  /\ k \in 0..50
            /\ Len(sl.ret.selectedSwaps) = 2 * k
            /\ 2 * k + 1 <= Len(raw) \/ k = 0
            /\ \A i \in 1..(2 * k) : sl.ret.selectedSwaps[i] = raw[i + 1]

C2_Witness ==
    /\ sl.pc = "returned"
    /\ sl.ret.stepCount = 50
    /\ Len(sl.content.steps.items) > 101

(***************************************************************************)
(* C3: with the image missing or empty, or the swap sequence absent, not   *)
(* a list or empty, solve returns stepCount 0 and no swaps at once: it     *)
(* does not raise, decodes no image and renders none.                      *)
(***************************************************************************)
C3_DegenerateInput ==
    \/ sl.content.image.kind \in {"absent", "empty"}
    \/ sl.content.steps.kind \in {"absent", "other"}
    \/ (sl.content.steps.kind = "list" /\ sl.content.steps.items = <<>>)

C3_DegenerateReturnsAtOnce ==
    (sl.pc \notin {"idle", "call"} /\ C3_DegenerateInput) =>
        /\ sl.pc = "returned"
        /\ sl.ret.stepCount = 0
        /\ sl.ret.selectedSwaps = <<>>
        /\ sl.decoded = 0
        /\ sl.rendered = 0

C3_Witness ==
    /\ sl.pc = "returned"
    /\ sl.content.image = B64Image("garbage")
    /\ sl.content.steps = ListSteps(<<>>)
    /\ sl.ret = DegenerateResult

(***************************************************************************)
(* C4: both cut sequences have gridSize + 1 elements, are non-decreasing,  *)
(* start at 0 and end at the extent; the gridSize^2 tiles are listed       *)
(* row-major, stay inside the rectangle and every pixel of it lies in      *)
(* exactly one tile; 10 x 10 with grid 2 gives cuts [0,5,10] and 5x5 tiles.*)
(***************************************************************************)
IsCutSequence(c, extent, g) ==
    /\ Len(c) = g + 1
    /\ c[1] = 0
    /\ c[g + 1] = extent
    /\ \A i \in 1..g : c[i] <= c[i + 1]

InTile(t, px, py) ==
    /\ t.x <= px /\ px < t.x + t.width
    /\ t.y <= py /\ py < t.y + t.height

C4_LayoutPartitionsImage ==
    lay.pc = "returned" =>
        LET w == lay.image_width
            h == lay.image_height
            g == lay.tile_count
            r == lay.ret
        IN  /\ IsCutSequence(r.grid.vertical, w, g)
            /\ IsCutSequence(r.grid.horizontal, h, g)
            /\ Len(r.tiles) = g * g
            /\ \A row \in 0..(g - 1), col \in 0..(g - 1) :
                  LET t == r.tiles[row * g + col + 1]
                  IN  /\ t.x = r.grid.vertical[col + 1]
                      /\ t.y = r.grid.horizontal[row + 1]
                      /\ t.x + t.width = r.grid.vertical[col + 2]
                      /\ t.y + t.height = r.grid.horizontal[row + 2]
                      /\ t.x >= 0 /\ t.y >= 0
                      /\ t.x + t.width <= w /\ t.y + t.height <= h
            /\ \A px \in 0..(w - 1), py \in 0..(h - 1) :
                  Cardinality({k \in 1..(g * g) : InTile(r.tiles[k], px, py)}) = 1
            /\ (w = 10 /\ h = 10 /\ g = 2) =>
                  /\ r.grid.vertical = <<0, 5, 10>>
                  /\ r.grid.horizontal = <<0, 5, 10>>
                  /\ \A k \in 1..4 : r.tiles[k].width = 5 /\ r.tiles[k].height = 5

C4_Witness ==
    /\ lay.pc = "returned"
    /\ lay.image_width = 10 /\ lay.image_height = 10 /\ lay.tile_count = 2
    /\ lay.ret.grid.vertical = <<0, 5, 10>>

(***************************************************************************)
(* C5: an attempt that returns a token has gone through exactly the steps  *)
(* page, settings, proof-of-work, then componentDone and the checkbox      *)
(* solver (checkbox) or getContent, componentDone and the slider solver    *)
(* (slider), then check, endSession, return: each once, each call answered *)
(* before the next step starts, and every attempt still under way has done *)
(* a prefix of them.  No transport call is in flight while the executor    *)
(* runs, and the check payload carries the digest of the first qualifying  *)
(* nonce for the fetched powInput and difficulty.                          *)
(***************************************************************************)
ExpectedSteps(variant) ==
    <<<<"page", "call">>, <<"page", "ret">>,
      <<"settings", "call">>, <<"settings", "ret">>,
      <<"pow", "start">>, <<"pow", "done">>>>
    \o (IF variant = "checkbox"
        THEN <<<<"componentDone", "call">>, <<"componentDone", "ret">>,
               <<"checkbox_solver", "run">>>>
        ELSE <<<<"getContent", "call">>, <<"getContent", "ret">>,
               <<"componentDone", "call">>, <<"componentDone", "ret">>,
               <<"slider_solver", "run">>>>)
    \o <<<<"check", "call">>, <<"check", "ret">>,
         <<"endSession", "call">>, <<"endSession", "ret">>,
         <<"solve", "return">>>>

IsPrefixOf(s, t) == Len(s) <= Len(t) /\ \A i \in 1..Len(s) : s[i] = t[i]

FirstQualifying(seed, d) ==
    CHOOSE n \in 1..MaxNonce :
        Qualifies(seed, d, n) /\ \A k \in 1..(n - 1) : ~Qualifies(seed, d, k)

C5_StepsInProtocolOrder ==
    \A a \in Attempts :
        LET r == att[a]
            variant == r.uri.variant
        IN  /\ r.result # None => r.log = ExpectedSteps(variant)
            /\ (r.error = None /\ variant \in {"checkbox", "slider"}) =>
                  IsPrefixOf(r.log, ExpectedSteps(variant))
            /\ r.inflight # None =>
                  r.log[Len(r.log)] = <<r.inflight, "call">>
            /\ r.pc \in {"wait_pow", "wait_slider"} => r.inflight = None
            /\ r.inflight = "check" =>
                  /\ r.initial.powInput = r.uri.powInput
                  /\ r.initial.difficulty = r.uri.difficulty
                  /\ r.pow.pc = "returned"
                  /\ r.sent.hash = sha256_hexdigest(r.uri.powInput
                        \o Decimal(FirstQualifying(r.uri.powInput, r.uri.difficulty)))

C5_Witness ==
    /\ att[1].pc = "done"
    /\ att[1].result = "tokB"
    /\ att[1].uri.variant = "slider"
    /\ att[1].uri.difficulty = 2
    /\ att[1].pow.nonce > 1

(***************************************************************************)
(* C6: an attempt started by the captcha handler (solve inside             *)
(* `async with self.session()`) against a service that serves a checkbox   *)
(* challenge and accepts every call has, once it has ended, returned the   *)
(* success_token of the check response.                                    *)
(***************************************************************************)
Accepting(uri) ==
    uri.variant = "checkbox" /\ uri.fails = "none" /\ uri.token \in Tokens

C6_CheckboxAttemptReturnsToken ==
    \A a \in Attempts :
        (/\ att[a].kind = "captcha"
         /\ Accepting(att[a].uri)
         /\ att[a].pc \in {"done", "failed"})
        => (att[a].pc = "done" /\ att[a].result = att[a].uri.token)

(***************************************************************************)
(* C7: once the page has come back declaring a variant other than          *)
(* "checkbox" and "slider" (or none), the attempt has failed with          *)
(* VKCaptchaSolverError and the page fetch is the only step it has made.   *)
(***************************************************************************)
C7_UnknownVariantFailsAfterPage ==
    \A a \in Attempts :
        LET r == att[a] IN
        (/\ \E i \in 1..Len(r.log) : r.log[i] = <<"page", "ret">>
         /\ r.initial.data.show_captcha_type \notin {"checkbox", "slider"})
        => /\ r.pc = "failed"
           /\ r.error = "VKCaptchaSolverError"
           /\ r.log = <<<<"page", "call">>, <<"page", "ret">>>>
           /\ r.inflight = None
           /\ r.pow = PowIdle
           /\ r.result = None

C7_Witness ==
    /\ att[1].pc = "failed"
    /\ att[1].initial.data.show_captcha_type = "absent"
    /\ att[1].error = "VKCaptchaSolverError"
    /\ Len(att[1].log) = 2

(***************************************************************************)
(* C8: a failed transport call is the last thing its attempt does: the     *)
(* attempt is failed with the error of that call and without a result, and *)
(* no transport method is called twice in one attempt.                     *)
(***************************************************************************)
TransportErrors == {"HTTPError", "VKCaptchaSolverError", "APIError"}

C8_FailureAbortsWithoutRetry ==
    \A a \in Attempts :
        LET r == att[a] IN
        /\ \A i \in 1..Len(r.log) :
              r.log[i][2] = "fail" =>
                 /\ i = Len(r.log)
                 /\ r.pc = "failed"
                 /\ r.error \in TransportErrors
                 /\ r.result = None
                 /\ r.inflight = None
        /\ \A m \in Methods :
              Cardinality({i \in 1..Len(r.log) : r.log[i] = <<m, "call">>}) <= 1
        /\ r.pc = "failed" => r.result = None

C8_Witness ==
    /\ att[1].pc = "failed"
    /\ att[1].error = "APIError"
    /\ Len(att[1].log) > 0
    /\ att[1].log[Len(att[1].log)] = <<"check", "fail">>
    /\ att[1].uri.variant = "slider"

(***************************************************************************)
(* C9: while an attempt started through session() is running, the solver's *)
(* _api is the API object made for that attempt, that object has not been  *)
(* closed, and every transport call of the attempt went through it.        *)
(***************************************************************************)
InSession(r) == r.kind \in {"captcha", "validation"}

C9_AttemptsUseTheirOwnApi ==
    \A a \in Attempts :
        (InSession(att[a]) /\ Running(att[a])) =>
            /\ solver_api = att[a].api
            /\ apis[att[a].api].session # "closed"
            /\ \A i \in 1..Len(att[a].via) : att[a].via[i] = att[a].api

(***************************************************************************)
(* C10: once an attempt started through session() has ended, by a result   *)
(* or by an exception, the HTTP session of its API object is not open and  *)
(* the solver's _api no longer refers to that object.                      *)
(***************************************************************************)
C10_SessionEndReleasesApi ==
    \A a \in Attempts :
        (InSession(att[a]) /\ att[a].pc \in {"done", "failed"}) =>
            /\ apis[att[a].api].session # "open"
            /\ solver_api # att[a].api

(***************************************************************************)
(* C11: solve raises VKCaptchaSolverError without a transport call when    *)
(* the solver has no API object; and an attempt that runs solve inside     *)
(* `async with self.session()` passes the guard: once its guard has been   *)
(* evaluated it is about to fetch the page, or has already called the      *)
(* transport.                                                              *)
(***************************************************************************)
C11_GuardPassesInsideSession ==
    \A a \in Attempts :
        LET r == att[a] IN
        /\ (r.kind = "solve" /\ r.pc = "failed" /\ solver_api = NoApi) =>
              (r.error = "VKCaptchaSolverError" /\ r.log = <<>>)
        /\ (r.kind = "captcha" /\ r.pc \notin {"idle", "guard"}) =>
              (r.pc = "fetch_page" \/ Len(r.log) > 0)

(***************************************************************************)
(* C12: when the exchange itself succeeded, API.call raises APIError if    *)
(* the envelope has an `error` key, and also if `response` is an object    *)
(* with a `status` field whose value is not "OK"; it returns the value of  *)
(* `response` only when neither is the case.                               *)
(***************************************************************************)
StatusNotOk(x) ==
    x.has_response /\ x.is_dict /\ x.has_status /\ x.status # "OK"

C12_ErrorOrBadStatusRaisesAPIError ==
    (ca.pc = "returned" /\ ca.x.http = "ok") =>
        /\ ca.x.has_error => ca.out.raised = "APIError"
        /\ StatusNotOk(ca.x) => ca.out.raised = "APIError"
        /\ (ca.out.raised = None /\ ca.x.has_response) =>
              (ca.out.value = ca.x.body /\ ~ca.x.has_error /\ ~StatusNotOk(ca.x))

(***************************************************************************)
(* C15: generate_mouse_trace emits floor(durationMs / intervalMs) points,  *)
(* one per step in step order: 4 for intervalMs 500 and durationMs 2000,   *)
(* 4 to 30 when no parameter is given.  The point of step i (from 0) lies  *)
(* within 3.5 in x and in y of from + (to - from) * t * (2 - t), where     *)
(* t = i / totalSteps.                                                     *)
(***************************************************************************)
\* |v - (start + d * t * (2 - t))| <= 3.5 for t = i / n, without fractions
NearEased(v, start, d, i, n) ==
    2 * Abs(v * n * n - (start * n * n + d * i * (2 * n - i))) <= 7 * n * n

C15_TraceLengthAndJitterBound ==
    tr.pc \in {"loop", "returned"} =>
        LET n == tr.p.duration_ms \div tr.p.interval_ms
            from == tr.p.from_pos
            to == tr.p.to_pos
        IN  /\ Len(tr.points) = tr.step
            /\ tr.pc = "returned" => Len(tr.points) = n
            /\ (tr.pc = "returned" /\ tr.p.interval_ms = 500
                   /\ tr.p.duration_ms = 2000) => Len(tr.points) = 4
            /\ (tr.pc = "returned" /\ tr.params = NoTraceParams) =>
                  Len(tr.points) \in 4..30
            /\ \A i \in 1..Len(tr.points) :
                  /\ NearEased(tr.points[i].x, from.x, to.x - from.x, i - 1, n)
                  /\ NearEased(tr.points[i].y, from.y, to.y - from.y, i - 1, n)

C15_Witness ==
    /\ tr.pc = "returned"
    /\ tr.params = NoTraceParams
    /\ Len(tr.points) = 30
    /\ tr.points[30] # tr.p.to_pos

(***************************************************************************)
(* C14: CheckboxCaptchaSolver.solve returns a mapping whose keys are the   *)
(* requested channels; "cursor" maps to the generated trace, whole if it   *)
(* has at most floor(900 * 1024 / 20) points and cut to its first          *)
(* floor(900 * 1024 / 20) points otherwise, and non-empty when no trace    *)
(* parameter is given; every other channel maps to the empty sequence.     *)
(***************************************************************************)
C14_SensorsForRequestedChannels ==
    cb.pc = "returned" =>
        LET requested == {cb.sensors_list[i] : i \in 1..Len(cb.sensors_list)}
            maxPoints == (900 * 1024) \div 20
        IN  /\ DOMAIN cb.ret = requested
            /\ \A s \in requested \ {"cursor"} : cb.ret[s] = <<>>
            /\ "cursor" \in requested =>
                  /\ Len(cb.trace) <= maxPoints => cb.ret["cursor"] = cb.trace
                  /\ Len(cb.trace) > maxPoints =>
                        /\ Len(cb.ret["cursor"]) = maxPoints
                        /\ \A i \in 1..maxPoints : cb.ret["cursor"][i] = cb.trace[i]
                  /\ cb.params = NoTraceParams => Len(cb.ret["cursor"]) > 0

C14_Witness ==
    /\ cb.pc = "returned"
    /\ cb.sensors_list = <<"cursor", "taps">>
    /\ Len(cb.trace) = 46081
    /\ Len(cb.ret["cursor"]) = 46080
    /\ cb.ret["taps"] = <<>>

(***************************************************************************)
(* C13: the payload sent with check holds the proof-of-work hash, the      *)
(* domain, the session token, an answer and the five sensor channels.      *)
(* Slider: the answer is the serialized selected swaps and the five        *)
(* channels are empty.  Checkbox: cursor holds the generated trace when    *)
(* the settings' bridge_sensors_list names cursor and is empty otherwise,  *)
(* the other four channels are empty, and every further name of the list   *)
(* is added as an empty channel.                                           *)
(***************************************************************************)
SensorChannels == {"accelerometer", "cursor", "gyroscope", "motion", "taps"}
PayloadKeys == {"domain", "session_token", "hash", "answer"} \cup SensorChannels

Requested(r) ==
    IF r.settings.has_list
    THEN {r.settings.bridge_sensors_list[i] :
             i \in 1..Len(r.settings.bridge_sensors_list)}
    ELSE {}

PayloadBase(r) ==
    /\ PayloadKeys \subseteq DOMAIN r.sent
    /\ r.sent.hash = r.pow.ret
    /\ Len(r.sent.hash) = DigestLen
    /\ r.sent.domain = r.initial.data.domain
    /\ r.sent.session_token = r.initial.data.session_token

SliderPayload(r) ==
    /\ r.sent.answer =
          B64Json([has_value |-> TRUE, value |-> slider_solve(r.content).selectedSwaps])
    /\ \A c \in SensorChannels : r.sent[c] = <<>>

C13_CheckPayloadFollowsSettings ==
    \A a \in Attempts :
        LET r == att[a] IN
        r.inflight = "check" =>
            /\ PayloadBase(r)
            /\ r.uri.variant = "slider" => SliderPayload(r)
            /\ r.uri.variant = "checkbox" =>
                  /\ DOMAIN r.sent = PayloadKeys \cup Requested(r)
                  /\ r.sent.answer = B64Json(EmptyObject)
                  /\ \A c \in DOMAIN r.sent \ (PayloadKeys \ SensorChannels) :
                        c # "cursor" => r.sent[c] = <<>>
                  /\ "cursor" \in Requested(r) =>
                        (r.sent.cursor \in SampleTraces /\ Len(r.sent.cursor) > 0)
                  /\ "cursor" \notin Requested(r) => r.sent.cursor = <<>>

C13_Witness ==
    /\ att[1].inflight = "check"
    /\ att[1].uri.variant = "checkbox"
    /\ Len(att[1].sent.cursor) >= 4
    /\ att[1].sent.taps = <<>>
    /\ att[1].uri.difficulty = 2

\* C13 as stated: in every checkbox payload cursor is populated with the trace
C13_CursorAlwaysPopulated ==
    \A a \in Attempts :
        LET r == att[a] IN
        r.inflight = "check" =>
            /\ PayloadBase(r)
            /\ r.uri.variant = "slider" => SliderPayload(r)
            /\ r.uri.variant = "checkbox" =>
                  /\ r.sent.cursor \in SampleTraces
                  /\ Len(r.sent.cursor) > 0
                  /\ \A c \in SensorChannels \ {"cursor"} : r.sent[c] = <<>>

(***************************************************************************)
(* The replay as the claims C16..C19 describe it, computed from the input  *)
(* alone: the permutation after k pairs and the seam score of its render.  *)
(***************************************************************************)
InRange(i, size) == 0 <= i /\ i < size

\* perm with the entries at a and b exchanged, if both are in range
Exchanged(perm, a, b) ==
    IF InRange(a, Len(perm)) /\ InRange(b, Len(perm))
    THEN [perm EXCEPT ![a + 1] = perm[b + 1], ![b + 1] = perm[a + 1]]
    ELSE perm

\* perm after the pairs j..k of seq
RECURSIVE ExchangedFrom(_, _, _, _)
ExchangedFrom(perm, seq, j, k) ==
    IF j > k THEN perm
    ELSE ExchangedFrom(Exchanged(perm, seq[2 * j - 1], seq[2 * j]), seq, j + 1, k)

PermAfter(seq, k, size) == ExchangedFrom([i \in 1..size |-> i - 1], seq, 1, k)

ScoreAfter(img, seq, k) ==
    calculate_seam_score(
        apply_tile_permutation(img, compute_tile_layout(img.width, img.height, 5),
                               PermAfter(seq, k, 25), img.width, img.height), 5)

\* the sequence the replay works on, and the number of steps it evaluates
Replayed == steps_for_processing(sl.content.steps.items)
Evaluated == Min(50, Len(Replayed) \div 2)
Searched == sl.pc = "returned" /\ sl.decoded = 1

(***************************************************************************)
(* C16: when no replayed step has a seam score strictly below the score of *)
(* the render of the identity permutation, solve returns stepCount 0 and   *)
(* no swaps, also when the sequence holds complete pairs.                  *)
(***************************************************************************)
C16_NoImprovementReturnsZeroSteps ==
    Searched =>
        LET img == DecodeImage(sl.content.image.name)
        IN  (\A k \in 1..Evaluated :
                ScoreAfter(img, Replayed, k) >= ScoreAfter(img, Replayed, 0))
            => sl.ret = DegenerateResult

(***************************************************************************)
(* C17: when at least one step is evaluated, the returned stepCount is the *)
(* smallest step whose seam score is the minimum over the evaluated steps. *)
(***************************************************************************)
C17_EarliestMinimumWins ==
    (Searched /\ Evaluated >= 1) =>
        LET img == DecodeImage(sl.content.image.name)
            best == sl.ret.stepCount
        IN  /\ best \in 1..Evaluated
            /\ \A k \in 1..Evaluated :
                  ScoreAfter(img, Replayed, best) <= ScoreAfter(img, Replayed, k)
            /\ \A k \in 1..(best - 1) :
                  ScoreAfter(img, Replayed, best) < ScoreAfter(img, Replayed, k)

C17_Witness ==
    /\ Searched
    /\ sl.content.image.name = "scrambled"
    /\ sl.content.steps.items = <<3, 0, 7, 7, 0, 0, 7>>
    /\ sl.ret.stepCount = 1
    /\ sl.st.step = 3

(***************************************************************************)
(* C18: during the replay the current permutation holds each of            *)
(* 0..gridSize^2 - 1 once; it is the identity at the start and, after k    *)
(* steps, the identity with the in-range pairs among the first k exchanged *)
(* in order; a pair with an index below 0 or above gridSize^2 - 1 changes  *)
(* nothing.                                                                *)
(***************************************************************************)
C18_PermutationIsReplayedBijection ==
    (sl.pc = "loop" \/ Searched) =>
        LET perm == sl.st.current_permutation
        IN  /\ Len(perm) = 25
            /\ {perm[i] : i \in 1..25} = 0..24
            /\ perm = PermAfter(Replayed, sl.st.step, 25)
            /\ sl.st.step = 0 => perm = [i \in 1..25 |-> i - 1]

C18_Witness ==
    /\ Searched
    /\ sl.content.steps.items = <<3, -1, 7, 0, 7, 25, 0, 7>>
    /\ sl.st.step = 3
    /\ sl.st.current_permutation[1] = 7
    /\ sl.st.current_permutation[8] = 0

(***************************************************************************)
(* C19: the replay ends after min(maxSteps, floor(n / 2)) steps, n being   *)
(* the length of the sequence without its first element: every pass of the *)
(* loop is one more step and one more render and stays within that number, *)
(* the loop goes on exactly while fewer steps are done, and the call       *)
(* returns with exactly that many steps done.                              *)
(***************************************************************************)
BoundedReplayStep ==
    /\ (sl.pc = "loop" /\ sl'.pc = "loop") =>
          /\ sl'.st.step = sl.st.step + 1
          /\ sl'.st.step <= Evaluated
          /\ sl'.rendered = sl'.st.step
    /\ sl'.pc = "loop" =>
          (replay_continues(sl'.st) <=> sl'.st.step < Evaluated)
    /\ (sl.pc = "loop" /\ sl'.pc = "returned") =>
          /\ sl.st.step = Evaluated
          /\ sl'.st.step = Evaluated
          /\ sl'.rendered = Evaluated

C20_PowSearchHasNoCeiling ==
    \A a \in Attempts :
        LET r == att[a] IN
        /\ r.pow.pc \in {"idle", "loop", "returned"}
        /\ r.pow.pc = "returned" =>
              Qualifies(r.pow.input_str, r.pow.difficulty, r.pow.nonce)
        /\ (r.pow.pc # "idle" /\ r.pow.difficulty > DigestLen) =>
              /\ r.pow.pc = "loop"
              /\ r.pc = "wait_pow"
              /\ r.result = None /\ r.error = None
              /\ \A k \in 1..r.pow.nonce :
                    ~Qualifies(r.pow.input_str, r.pow.difficulty, k)
              /\ \A i \in 1..Len(r.log) :
                    r.log[i][1] \in {"page", "settings", "pow"}

C20_Witness ==
    /\ att[1].pc = "wait_pow"
    /\ att[1].pow.difficulty = DigestLen + 1
    /\ att[1].pow.pc = "loop"
    /\ att[1].pow.nonce = MaxNonce

(***************************************************************************)
(* C21: the cut sequences of a layout are strictly increasing, and every   *)
(* tile has positive width and height, exactly on an axis whose extent is  *)
(* at least the tile count; on an axis with fewer pixels than tiles two    *)
(* neighbouring cuts coincide and the tiles between them are empty.        *)
(***************************************************************************)
StrictlyIncreasing(c) == \A i \in 1..(Len(c) - 1) : c[i] < c[i + 1]

C21_CutsStrictWhenExtentCoversGrid ==
    lay.pc = "returned" =>
        LET w == lay.image_width
            h == lay.image_height
            g == lay.tile_count
            r == lay.ret
        IN  /\ StrictlyIncreasing(r.grid.vertical) <=> w >= g
            /\ StrictlyIncreasing(r.grid.horizontal) <=> h >= g
            /\ (\A k \in 1..Len(r.tiles) : r.tiles[k].width > 0) <=> w >= g
            /\ (\A k \in 1..Len(r.tiles) : r.tiles[k].height > 0) <=> h >= g

C21_Witness ==
    /\ lay.pc = "returned"
    /\ lay.image_width = 7 /\ lay.image_height = 4 /\ lay.tile_count = 4
    /\ lay.ret.grid.vertical = <<0, 2, 4, 5, 7>>
    /\ lay.ret.grid.horizontal = <<0, 1, 2, 3, 4>>
    /\ \A k \in 1..16 : lay.ret.tiles[k].width > 0 /\ lay.ret.tiles[k].height > 0

\* C21 as stated: every layout has strictly increasing cuts and tiles of
\* positive width and height.
C21_CutsStrictlyIncreasing ==
    lay.pc = "returned" =>
        /\ StrictlyIncreasing(lay.ret.grid.vertical)
        /\ StrictlyIncreasing(lay.ret.grid.horizontal)
        /\ \A k \in 1..Len(lay.ret.tiles) :
              lay.ret.tiles[k].width > 0 /\ lay.ret.tiles[k].height > 0

(***************************************************************************)
(* C22: along one axis of a layout any two tile extents differ by at most  *)
(* one: each is the floor or the ceiling of extent / tile_count.           *)
(***************************************************************************)
Floor(n, d) == n \div d
Ceil(n, d) == (n + d - 1) \div d

Gaps(c) == {c[i + 1] - c[i] : i \in 1..(Len(c) - 1)}

C22_TileExtentsDifferByAtMostOne ==
    lay.pc = "returned" =>
        LET w == lay.image_width
            h == lay.image_height
            g == lay.tile_count
            r == lay.ret
        IN  /\ Gaps(r.grid.vertical) \subseteq {Floor(w, g), Ceil(w, g)}
            /\ Gaps(r.grid.horizontal) \subseteq {Floor(h, g), Ceil(h, g)}
            /\ \A j, k \in 1..Len(r.tiles) :
                  /\ Abs(r.tiles[j].width - r.tiles[k].width) <= 1
                  /\ Abs(r.tiles[j].height - r.tiles[k].height) <= 1
                  /\ r.tiles[k].width \in Gaps(r.grid.vertical)
                  /\ r.tiles[k].height \in Gaps(r.grid.horizontal)

\* both extents occur: 10 / 4 is cut at the exact halves 2.5 and 7.5
C22_Witness ==
    /\ lay.pc = "returned"
    /\ lay.image_width = 10 /\ lay.image_height = 7 /\ lay.tile_count = 4
    /\ lay.ret.grid.vertical = <<0, 2, 5, 8, 10>>
    /\ Gaps(lay.ret.grid.vertical) = {2, 3}
    /\ Gaps(lay.ret.grid.horizontal) = {1, 2}

(***************************************************************************)
(* C23: when no position is given a tile of another size while one of the  *)
(* two is empty (so always when the image has at least tile_count pixels   *)
(* along both axes, and always for the identity), apply_tile_permutation   *)
(* returns an image of the source's size in which every pixel lies in      *)
(* exactly one position, was written, and holds the source pixel at a      *)
(* place inside the source tile the permutation assigns to that position;  *)
(* with the identity the result is the source.  Otherwise the call raises. *)
(***************************************************************************)
\* an image whose pixel at column x, row y holds <<x + 1, y + 1, 0>>: rendered
\* in place of the source, it shows where each written pixel was read from
CoordinateImage(width, height) ==
    [width |-> width, height |-> height,
     px |-> [y \in 1..height |-> [x \in 1..width |-> <<x, y, 0>>]]]

RenderLayout ==
    compute_tile_layout(rn.source_image.width, rn.source_image.height,
                        rn.tile_count)

\* the grid positions whose rectangle holds the pixel at column x, row y
PositionsOf(x, y) ==
    {k \in 0..(rn.tile_count * rn.tile_count - 1) :
        LET v == RenderLayout.grid.vertical
            h == RenderLayout.grid.horizontal
            col == k % rn.tile_count
            row == k \div rn.tile_count
        IN  /\ v[col + 1] <= x /\ x < v[col + 2]
            /\ h[row + 1] <= y /\ y < h[row + 2]}

PixelsFromAssignedTiles ==
    LET src == rn.source_image
        origin == apply_tile_permutation(
                      CoordinateImage(src.width, src.height), RenderLayout,
                      rn.permutation, src.width, src.height)
    IN  /\ rn.ret.width = src.width /\ rn.ret.height = src.height
        /\ Len(rn.ret.px) = src.height
        /\ \A y \in 0..(src.height - 1) :
              /\ Len(rn.ret.px[y + 1]) = src.width
              /\ \A x \in 0..(src.width - 1) :
                    LET from == origin.px[y + 1][x + 1]
                    IN  /\ Cardinality(PositionsOf(x, y)) = 1
                        /\ from # <<0, 0, 0>>
                        /\ \A k \in PositionsOf(x, y) :
                              InTile(RenderLayout.tiles[rn.permutation[k + 1] + 1],
                                     from[1] - 1, from[2] - 1)
                        /\ rn.ret.px[y + 1][x + 1] = src.px[from[2]][from[1]]

AllTilesNonEmpty ==
    \A k \in 1..Len(RenderLayout.tiles) :
        RenderLayout.tiles[k].width > 0 /\ RenderLayout.tiles[k].height > 0

C23_RenderPlacesAssignedTiles ==
    rn.pc \in {"returned", "raised"} =>
        /\ rn.pc = "returned" => PixelsFromAssignedTiles
        /\ AllTilesNonEmpty => rn.pc = "returned"
        /\ rn.permutation = Identity(rn.tile_count * rn.tile_count) =>
              rn.pc = "returned" /\ rn.ret = rn.source_image
        /\ rn.pc = "raised" =>
              /\ ~AllTilesNonEmpty
              /\ \/ rn.source_image.width < rn.tile_count
                 \/ rn.source_image.height < rn.tile_count

\* two tiles of different sizes exchanged: the render resizes both
C23_Witness ==
    /\ rn.pc = "returned"
    /\ rn.source_image = DecodeImage("wide")
    /\ rn.tile_count = DEFAULT_TILE_COUNT
    /\ rn.permutation = SwapTiles(Identity(25), 0, 5)
    /\ RenderLayout.tiles[1].height # RenderLayout.tiles[6].height
    /\ rn.ret # rn.source_image
    /\ rn.ret.px[1][1] = rn.source_image.px[3][1]

\* C23 as stated: every call returns such an image.
C23_RenderAlwaysReturnsAssignedTiles ==
    rn.pc \in {"returned", "raised"} =>
        /\ rn.pc = "returned"
        /\ PixelsFromAssignedTiles

(***************************************************************************)
(* C24: on an image with at least tile_count pixels along both axes,       *)
(* calculate_seam_score returns a non-negative integer: the sum, over the  *)
(* interior vertical cuts c and all pixel rows, of the absolute            *)
(* per-channel differences between columns c - 1 and c, plus the same sum  *)
(* over the interior horizontal cuts and all pixel columns, every pair of  *)
(* neighbouring boundary pixels counted once.  A uniform image scores 0    *)
(* whenever the call returns.  The call raises only on an image with fewer *)
(* pixels than tiles along an axis.                                        *)
(***************************************************************************)
ScoreGrid ==
    compute_tile_layout(sc.image.width, sc.image.height, sc.tile_count).grid

InteriorCuts(c) == {c[i] : i \in 2..(Len(c) - 1)}

\* every pair (column x - 1, column x) with x an interior vertical cut, in
\* every row, once; every pair (row y - 1, row y) with y an interior
\* horizontal cut, in every column, once
BoundaryPairSum ==
    LET w == sc.image.width
        h == sc.image.height
        px == sc.image.px
    IN  SumSeq([k \in 1..((w - 1) * h) |->
                  LET x == ((k - 1) % (w - 1)) + 1
                      y == (k - 1) \div (w - 1)
                  IN  IF x \in InteriorCuts(ScoreGrid.vertical)
                      THEN PixelDiff(px[y + 1][x], px[y + 1][x + 1])
                      ELSE 0])
        + SumSeq([k \in 1..((h - 1) * w) |->
                    LET y == ((k - 1) % (h - 1)) + 1
                        x == (k - 1) \div (h - 1)
                    IN  IF y \in InteriorCuts(ScoreGrid.horizontal)
                        THEN PixelDiff(px[y][x + 1], px[y + 1][x + 1])
                        ELSE 0])

IsUniform(image) ==
    \A y \in 1..image.height, x \in 1..image.width :
        image.px[y][x] = image.px[1][1]

CoversGrid == sc.image.width >= sc.tile_count /\ sc.image.height >= sc.tile_count

C24_SeamScoreIsBoundaryPairSum ==
    sc.pc \in {"returned", "raised"} =>
        /\ CoversGrid =>
              /\ sc.pc = "returned"
              /\ sc.ret = BoundaryPairSum
        /\ sc.pc = "returned" =>
              /\ sc.ret \in Nat
              /\ IsUniform(sc.image) => sc.ret = 0
        /\ sc.pc = "raised" => ~CoversGrid

\* a 6 x 5 picture in 3 x 3 tiles of unequal heights, with a positive score
C24_Witness ==
    /\ sc.pc = "returned"
    /\ sc.image = Pattern(6, 5, 2)
    /\ sc.tile_count = 3
    /\ ScoreGrid.horizontal = <<0, 2, 3, 5>>
    /\ sc.ret = BoundaryPairSum
    /\ sc.ret > 0

\* C24 as stated: every call returns the sum with each pair counted once.
C24_SeamScoreAlwaysBoundaryPairSum ==
    sc.pc \in {"returned", "raised"} =>
        /\ sc.pc = "returned"
        /\ sc.ret \in Nat
        /\ sc.ret = BoundaryPairSum
        /\ IsUniform(sc.image) => sc.ret = 0

(***************************************************************************)
(* C25: the last point of a returned trace of at least one step lies       *)
(* within 3.5 of `to` on each axis.                                        *)
(***************************************************************************)
C25_LastPointNearTo ==
    (tr.pc = "returned" /\ tr.total_steps >= 1) =>
        LET last == tr.points[Len(tr.points)]
        IN  /\ 2 * Abs(last.x - tr.p.to_pos.x) <= 7
            /\ 2 * Abs(last.y - tr.p.to_pos.y) <= 7

(***************************************************************************)
(* C26: a pass of the replay loop over a pair with an index out of range   *)
(* is a step like any other: it leaves the permutation as it is, counts    *)
(* one step and one render, its score is compared with the best so far,    *)
(* and when it is better the step becomes the best step and the returned   *)
(* prefix ends with the two elements of the pair.  Every returned prefix   *)
(* holds all the pairs up to the best step, whether in range or not.       *)
(***************************************************************************)
PairAt(seq, k) == <<seq[2 * k - 1], seq[2 * k]>>

OutOfRange(pair, size) == ~(InRange(pair[1], size) /\ InRange(pair[2], size))

OutOfRangeStep ==
    (/\ sl.pc = "loop" /\ sl'.pc = "loop"
     /\ OutOfRange(PairAt(sl.st.swap_sequence, sl.st.step + 1),
                   Len(sl.st.current_permutation))) =>
        LET k == sl.st.step + 1
            pair == PairAt(sl.st.swap_sequence, k)
            score == ScoreAfter(sl.st.original_image, sl.st.swap_sequence, k)
            better == sl.st.best_score = Inf \/ score < sl.st.best_score
        IN  /\ sl'.st.current_permutation = sl.st.current_permutation
            /\ sl'.st.step = k
            /\ sl'.rendered = sl.rendered + 1
            /\ score = ScoreAfter(sl.st.original_image, sl.st.swap_sequence, k - 1)
            /\ better =>
                  /\ sl'.st.best_step = k
                  /\ sl'.st.best_score = score
                  /\ Len(sl'.st.best_swaps) = 2 * k
                  /\ PairAt(sl'.st.best_swaps, k) = pair
            /\ ~better =>
                  /\ sl'.st.best_step = sl.st.best_step
                  /\ sl'.st.best_score = sl.st.best_score
                  /\ sl'.st.best_swaps = sl.st.best_swaps

C26_OutOfRangePairIsAStep == [][OutOfRangeStep]_vars

\* the first pair (-1, 7) is out of range and is the best step of a flat image
C26_Witness ==
    /\ sl.pc = "returned"
    /\ sl.content.image.name = "flat"
    /\ sl.content.steps.items = <<3, -1, 7, 0, 7, 25, 0, 7>>
    /\ sl.rendered = 3
    /\ sl.ret = [stepCount |-> 1, selectedSwaps |-> <<-1, 7>>]

(***************************************************************************)
(* C27: solve returns a token only after endSession has been answered      *)
(* without error, and the token is the one of the check response.  When    *)
(* check was accepted and endSession then fails, solve has raised the      *)
(* error of endSession and returns nothing, although the check response    *)
(* held a success token.                                                   *)
(***************************************************************************)
Logged(r, name, phase) == \E i \in 1..Len(r.log) : r.log[i] = <<name, phase>>

C27_TokenOnlyAfterEndSession ==
    \A a \in Attempts :
        LET r == att[a] IN
        /\ r.result # None =>
              /\ Logged(r, "check", "ret")
              /\ Logged(r, "endSession", "ret")
              /\ ~Logged(r, "endSession", "fail")
              /\ r.response.has_token
              /\ r.result = r.response.success_token
        /\ Logged(r, "endSession", "fail") =>
              /\ Logged(r, "check", "ret")
              /\ r.pc = "failed"
              /\ r.error \in TransportErrors
              /\ r.result = None

\* check answered with the token, endSession failed, nothing returned
C27_Witness ==
    /\ att[1].pc = "failed"
    /\ Len(att[1].log) > 0
    /\ att[1].log[Len(att[1].log)] = <<"endSession", "fail">>
    /\ att[1].response = [has_token |-> TRUE, success_token |-> "tokA"]
    /\ att[1].error = "APIError"
    /\ att[1].result = None

(***************************************************************************)
(* C28: for an exchange that came back with a JSON object, API.call        *)
(* returns the whole object, raising nothing, when the object has neither  *)
(* an `error` nor a `response` key; when it has both, the call raises on   *)
(* the error whatever the response holds, a response with status "OK"      *)
(* included.                                                               *)
(***************************************************************************)
WholeEnvelope == [envelope |-> TRUE]

C28_NeitherKeyReturnsEnvelopeErrorWins ==
    (ca.pc = "returned" /\ ca.x.http = "ok") =>
        /\ (~ca.x.has_error /\ ~ca.x.has_response) =>
              /\ ca.out.raised = None
              /\ ca.out.value = WholeEnvelope
        /\ (ca.x.has_error /\ ca.x.has_response) =>
              /\ ca.out.raised \in {"APIError", "AttributeError"}
              /\ ca.x.error_is_dict => ca.out.raised = "APIError"
              /\ ca.out.value = NoBody
        /\ ca.out.value = WholeEnvelope =>
              (~ca.x.has_error /\ ~ca.x.has_response)

C28_Witness ==
    /\ ca.pc = "returned"
    /\ ca.x.http = "ok"
    /\ ~ca.x.has_error /\ ~ca.x.has_response
    /\ ca.out = [raised |-> None, value |-> WholeEnvelope]
====
